---------------------------- MODULE Spec2Model ----------------------------
(***************************************************************************)
(* Model of scripts/claude-streamer-dev.py: the driving loop of main, the  *)
(* line classifier process_line, the streaming aggregator                  *)
(* update_stream_if_needed and the finalizer, against a chat sink that may *)
(* fail on any call.                                                       *)
(*                                                                         *)
(* A Python string is a sequence of one-character strings, so that len,    *)
(* slicing, rfind, lstrip, split and startswith are computed as Python     *)
(* computes them.  The texts that are streamed to the chat (they grow past *)
(* SLACK_MAX_MESSAGE_LENGTH) are held run-length encoded: the same         *)
(* sequence of characters, written as its maximal runs [c, n] of n equal   *)
(* characters c.  Positions named as in the source are 0-based; s[i] of    *)
(* the source is s[i+1] here.                                              *)
(***************************************************************************)
EXTENDS Integers, Sequences, FiniteSets, TLC

(***************************************************************************)
(* Program constants.                                                      *)
(***************************************************************************)
STREAM_UPDATE_INTERVAL_MS == 500
STREAM_MIN_CHARS == 50
SLACK_MAX_MESSAGE_LENGTH == 39000
SAFE_CUTOFF_MARGIN == 200
NEWLINE_LOOKBACK == 500
SPACE_LOOKBACK == 100
FINAL_ATTEMPTS == 3
FALLBACK_TAIL_MARGIN == 10
DISPLAY_CMD_MAX == 50
GREP_PATTERN_MAX == 30
DISPLAY_QUERY_MAX == 40
RETRY_PAUSE_MS == 1000

\* The backtick character, which the string syntax cannot spell
BACKTICK == "backtick"

STREAM_TYPING_INDICATOR ==
    <<".", ".", ".">>
CONTINUED_MARKER ==
    <<"\n", "\n", "_", "[", "C", "o", "n", "t", "i", "n", "u", "e", "d", " ", "i", "n", " ", "n", "e", "x", "t", " ", "m", "e", "s", "s", "a", "g", "e", ".", ".", ".", "]", "_">>
CONTINUATION_PREFIX ==
    <<"_", "[", "C", "o", "n", "t", "i", "n", "u", "a", "t", "i", "o", "n", " ">>
CONTINUATION_SUFFIX ==
    <<"]", "_", "\n", "\n">>
TRUNCATION_NOTICE ==
    <<"\n", "\n", "_", "[", "M", "e", "s", "s", "a", "g", "e", " ", "t", "r", "u", "n", "c", "a", "t", "e", "d", " ", "-", " ", "e", "x", "c", "e", "e", "d", "e", "d", " ", "S", "l", "a", "c", "k", "'", "s", " ", "4", "0", "K", "B", " ", "l", "i", "m", "i", "t", "]", "_">>
FALLBACK_PREFIX ==
    <<".", ".", ".", "\n", "\n">>
EDITING_PREFIX ==
    <<"\n", "_", "E", "d", "i", "t", "i", "n", "g", " ", BACKTICK>>
CREATING_PREFIX ==
    <<"\n", "_", "C", "r", "e", "a", "t", "i", "n", "g", " ", BACKTICK>>
RUNNING_PREFIX ==
    <<"\n", "_", "R", "u", "n", "n", "i", "n", "g", " ", BACKTICK>>
NOTIFY_SUFFIX ==
    <<BACKTICK, ".", ".", ".", "_", "\n">>
ELLIPSIS ==
    <<".", ".", ".">>
ALREADY_IN_USE ==
    <<"a", "l", "r", "e", "a", "d", "y", " ", "i", "n", " ", "u", "s", "e">>

PROCESSING_EMOJI == "hourglass_flowing_sand"
SUCCESS_EMOJI == "white_check_mark"
ERROR_EMOJI == "x"

\* Python's None for a message timestamp; real timestamps are 1, 2, ...
None == 0

(***************************************************************************)
(* Python string operations on character sequences.                        *)
(***************************************************************************)
Min(a, b) == IF a < b THEN a ELSE b
Max(a, b) == IF a > b THEN a ELSE b

\* s[:k] for k >= 0
Take(s, k) == SubSeq(s, 1, Min(k, Len(s)))

\* s[k:] for k >= 0
Drop(s, k) == SubSeq(s, Min(k, Len(s)) + 1, Len(s))

\* The whitespace of str.isspace() beyond the space and the characters with
\* an escape: the vertical tab, the four separators 1C-1F, NEL and the
\* no-break space, written as themselves
CONTROL_SPACES == {"", "", "", "", "", "", " "}

\* The whitespace above Latin-1, which the string syntax cannot spell, by code
\* point: U+1680, U+2000 to U+200A, U+2028, U+2029, U+202F, U+205F, U+3000
UNICODE_SPACES ==
    {"u1680", "u2000", "u2001", "u2002", "u2003", "u2004", "u2005", "u2006", "u2007",
     "u2008", "u2009", "u200a", "u2028", "u2029", "u202f", "u205f", "u3000"}

\* str.isspace() for one character: what strip() and lstrip() remove
IsSpace(c) == c \in {" ", "\n", "\t", "\r", "\f"} \cup CONTROL_SPACES \cup UNICODE_SPACES

\* s.lstrip(): the first position that is not whitespace, scanning forward
RECURSIVE LStripFrom(_, _)
LStripFrom(s, i) ==
    IF i > Len(s) THEN <<>>
    ELSE IF IsSpace(s[i]) THEN LStripFrom(s, i + 1)
    ELSE SubSeq(s, i, Len(s))

LStrip(s) == LStripFrom(s, 1)

RECURSIVE RStripTo(_, _)
RStripTo(s, i) ==
    IF i < 1 THEN <<>>
    ELSE IF IsSpace(s[i]) THEN RStripTo(s, i - 1)
    ELSE SubSeq(s, 1, i)

\* s.strip()
Strip(s) == LStrip(RStripTo(s, Len(s)))

\* s.startswith(p)
StartsWith(s, p) == Len(p) <= Len(s) /\ SubSeq(s, 1, Len(p)) = p

\* s.startswith(t) for a tuple t of prefixes
StartsWithAny(s, ps) == \E p \in ps : StartsWith(s, p)

\* needle in s
Contains(s, needle) ==
    \E i \in 0..(Len(s) - Len(needle)) : SubSeq(s, i + 1, i + Len(needle)) = needle

\* s.find(sep, from) (0-based), -1 when absent
RECURSIVE FindFrom(_, _, _)
FindFrom(s, sep, i) ==
    IF i + Len(sep) > Len(s) THEN -1
    ELSE IF SubSeq(s, i + 1, i + Len(sep)) = sep THEN i
    ELSE FindFrom(s, sep, i + 1)

\* s.split(sep): the list of parts between non-overlapping occurrences of sep
RECURSIVE Split(_, _)
Split(s, sep) ==
    LET i == FindFrom(s, sep, 0)
    IN IF i < 0 THEN <<s>>
       ELSE <<Take(s, i)>> \o Split(Drop(s, i + Len(sep)), sep)

(***************************************************************************)
(* Run-length encoded text.  A text is the sequence of the maximal runs of *)
(* its characters, so a string has exactly one encoding and equality of    *)
(* encodings is equality of strings.  Enc converts; the operators below    *)
(* compute on the runs what the Python operation computes on the           *)
(* characters.                                                             *)
(***************************************************************************)
Run(c, n) == [c |-> c, n |-> n]

\* a + b
TCat(a, b) ==
    IF a = <<>> THEN b
    ELSE IF b = <<>> THEN a
    ELSE IF a[Len(a)].c = b[1].c
    THEN SubSeq(a, 1, Len(a) - 1) \o <<Run(b[1].c, a[Len(a)].n + b[1].n)>> \o Tail(b)
    ELSE a \o b

\* The text of the characters lo..hi of s, by halves
RECURSIVE EncRange(_, _, _)
EncRange(s, lo, hi) ==
    IF lo > hi THEN <<>>
    ELSE IF lo = hi THEN <<Run(s[lo], 1)>>
    ELSE LET mid == (lo + hi) \div 2
         IN TCat(EncRange(s, lo, mid), EncRange(s, mid + 1, hi))

\* The text of a sequence of characters
Enc(s) == EncRange(s, 1, Len(s))

\* The number of characters in the runs lo..hi of t, by halves
RECURSIVE RunSum(_, _, _)
RunSum(t, lo, hi) ==
    IF lo > hi THEN 0
    ELSE IF lo = hi THEN t[lo].n
    ELSE LET mid == (lo + hi) \div 2
         IN RunSum(t, lo, mid) + RunSum(t, mid + 1, hi)

\* len(t)
TLen(t) == RunSum(t, 1, Len(t))

\* The position at which run i of t starts
RunStart(t, i) == RunSum(t, 1, i - 1)

\* The first k characters of the runs lo..hi of t, by halves
RECURSIVE TTakeRange(_, _, _, _)
TTakeRange(t, lo, hi, k) ==
    IF lo > hi \/ k <= 0 THEN <<>>
    ELSE IF lo = hi THEN <<Run(t[lo].c, Min(k, t[lo].n))>>
    ELSE LET mid == (lo + hi) \div 2
             left == RunSum(t, lo, mid)
         IN IF k <= left THEN TTakeRange(t, lo, mid, k)
            ELSE SubSeq(t, lo, mid) \o TTakeRange(t, mid + 1, hi, k - left)

\* t[:k] for k >= 0
TTake(t, k) == TTakeRange(t, 1, Len(t), k)

\* The runs lo..hi of t without their first k characters, by halves
RECURSIVE TDropRange(_, _, _, _)
TDropRange(t, lo, hi, k) ==
    IF lo > hi THEN <<>>
    ELSE IF k <= 0 THEN SubSeq(t, lo, hi)
    ELSE IF lo = hi THEN (IF k >= t[lo].n THEN <<>> ELSE <<Run(t[lo].c, t[lo].n - k)>>)
    ELSE LET mid == (lo + hi) \div 2
             left == RunSum(t, lo, mid)
         IN IF k >= left THEN TDropRange(t, mid + 1, hi, k - left)
            ELSE TDropRange(t, lo, mid, k) \o SubSeq(t, mid + 1, hi)

\* t[k:] for k >= 0
TDrop(t, k) == TDropRange(t, 1, Len(t), k)

\* t[-k:] for k > 0
TLastChars(t, k) == TDrop(t, Max(TLen(t) - k, 0))

\* t.lstrip(): the runs from the first one that is not whitespace
TLStrip(t) ==
    LET kept == {i \in 1..Len(t) : ~IsSpace(t[i].c)}
    IN IF kept = {} THEN <<>>
       ELSE SubSeq(t, CHOOSE i \in kept : \A j \in kept : i <= j, Len(t))

\* t.rfind(c, start, end) for one character c and 0 <= start: in each run of
\* c, the highest position below min(end, len(t)), if it is in the run and
\* not below start; the highest of these, or -1
TRFind(t, c, start, end) ==
    LET stop == Min(end, TLen(t))
        LastIn(i) == Min(RunStart(t, i + 1), stop) - 1
        found == {LastIn(i) : i \in {j \in 1..Len(t) :
                                        /\ t[j].c = c
                                        /\ LastIn(j) >= RunStart(t, j)
                                        /\ LastIn(j) >= start}}
    IN IF found = {} THEN -1
       ELSE CHOOSE p \in found : \A q \in found : q <= p

\* needle in t, for a sequence of characters needle: some consecutive runs
\* of t are the runs of needle, the first and the last of them possibly longer
TContains(t, needle) ==
    LET runs == Enc(needle)
        m == Len(runs)
    IN \/ m = 0
       \/ \E i \in 0..(Len(t) - m) :
            \A k \in 1..m :
               /\ t[i + k].c = runs[k].c
               /\ IF 1 < k /\ k < m THEN t[i + k].n = runs[k].n ELSE t[i + k].n >= runs[k].n

Digit(d) == <<"0", "1", "2", "3", "4", "5", "6", "7", "8", "9">>[d + 1]

\* str(n) for n >= 0, as formatted by an f-string
RECURSIVE IntToStr(_)
IntToStr(n) == IF n < 10 THEN <<Digit(n)>> ELSE IntToStr(n \div 10) \o <<Digit(n % 10)>>


(***************************************************************************)
(* The chat sink.  Every call appends one entry to sink_log: the operation,*)
(* the handle it targets (update) or hands to a caller that keeps it       *)
(* (create; None on failure, and where the result is discarded),           *)
(* the text as put on the wire and the outcome.  The outcome of each call  *)
(* is an input: the head of st.oks, or of st.acks for a call whose result  *)
(* the caller does not read.  The entry also carries the call site: *)
(* kind (what the text is), site (the step of main), acc (streaming_text   *)
(* when the call is made), streamed (last_streamed_len when the call is    *)
(* made), time (the clock as last read), and for the                       *)
(* calls of update_stream_if_needed                                        *)
(* its force argument and the values of new_chars and time_elapsed it      *)
(* computed.                                                               *)
(***************************************************************************)
Meta(kind, force, new_chars, time_elapsed) ==
    [kind |-> kind, force |-> force, new_chars |-> new_chars, time_elapsed |-> time_elapsed]

PlainMeta(kind) == Meta(kind, FALSE, 0, 0)

SinkEntry(st, op, ts, text, ok, meta) ==
    [op |-> op, ts |-> ts, text |-> text, ok |-> ok, site |-> st.site,
     acc |-> st.streaming_text, streamed |-> st.last_streamed_len,
     time |-> st.now, kind |-> meta.kind, force |-> meta.force,
     new_chars |-> meta.new_chars, time_elapsed |-> meta.time_elapsed]

\* print(..., file=sys.stderr): it raises when sys.stderr is closed.  An
\* operator on st returns st as it is when an exception is on its way
\* (st.raised): the statements after the one that raised are not executed.
print_stderr(st) == IF st.stderr THEN st ELSE [st EXCEPT !.raised = TRUE]

\* Lines 108-109: a postMessage that failed may have failed by an exception
\* of the request (the head of st.excs tells) rather than by an answer that
\* is not ok; the exception is printed, the refusal is not
Answered(st, ok) ==
    LET by_exception == ~ok /\ st.excs # <<>> /\ Head(st.excs)
        s1 == [st EXCEPT !.excs = IF @ = <<>> THEN @ ELSE Tail(@)]
    IN IF by_exception THEN print_stderr(s1) ELSE s1

\* send_slack: chat.postMessage; returns the new timestamp, or None
send_slack(st, text, meta) ==
    LET ok == Head(st.oks)
        ts == IF ok THEN st.next_ts ELSE None
    IN IF st.raised THEN st
       ELSE Answered([st EXCEPT !.oks = Tail(@),
                                !.sink_log = Append(@, SinkEntry(st, "create", ts, text, ok, meta)),
                                !.next_ts = IF ok THEN @ + 1 ELSE @,
                                !.ret = ts],
                     ok)

\* send_slack where the caller discards the result: the sink answers as for
\* any call (the answer is the head of st.acks, the answers to the calls
\* whose result is not read), and the caller keeps no timestamp
post_slack(st, text, meta) ==
    IF st.raised THEN st
    ELSE Answered([st EXCEPT !.acks = Tail(@),
                             !.sink_log = Append(@, SinkEntry(st, "create", None, text,
                                                              Head(st.acks), meta))],
                  Head(st.acks))

\* The text update_slack_message puts on the wire
TruncateForUpdate(text) ==
    IF TLen(text) > SLACK_MAX_MESSAGE_LENGTH
    THEN TCat(TTake(text, SLACK_MAX_MESSAGE_LENGTH), Enc(TRUNCATION_NOTICE))
    ELSE text

\* update_slack_message: chat.update; returns True on success.  Every
\* failure is printed (lines 128, 132, 135)
update_slack_message(st, ts, text, meta) ==
    LET ok == Head(st.oks)
        s1 == [st EXCEPT !.oks = Tail(@),
                         !.sink_log = Append(@, SinkEntry(st, "update", ts,
                                                          TruncateForUpdate(text), ok, meta)),
                         !.ret = ok]
    IN IF st.raised THEN st
       ELSE IF ok THEN s1
       ELSE print_stderr(s1)

(***************************************************************************)
(* The streaming aggregator: update_stream_if_needed.                      *)
(***************************************************************************)
SAFE_CUTOFF == SLACK_MAX_MESSAGE_LENGTH - SAFE_CUTOFF_MARGIN

\* should_update with either threshold sufficing
ShouldUpdateEither(force, new_chars, time_elapsed) ==
    force \/ new_chars >= STREAM_MIN_CHARS \/ time_elapsed >= STREAM_UPDATE_INTERVAL_MS

\* should_update
ShouldUpdate(force, new_chars, time_elapsed) ==
    force \/ (new_chars >= STREAM_MIN_CHARS /\ time_elapsed >= STREAM_UPDATE_INTERVAL_MS)

\* display_text
DisplayText(streaming_text, force) ==
    TCat(streaming_text, IF ~force THEN Enc(STREAM_TYPING_INDICATOR) ELSE <<>>)

\* break_point, given newline_pos and space_pos
BreakPointOf(newline_pos, space_pos) ==
    IF newline_pos > 0 THEN newline_pos
    ELSE IF space_pos > 0 THEN space_pos
    ELSE SAFE_CUTOFF

\* break_point
BreakPoint(streaming_text) ==
    BreakPointOf(TRFind(streaming_text, "\n", SAFE_CUTOFF - NEWLINE_LOOKBACK, SAFE_CUTOFF),
                 TRFind(streaming_text, " ", SAFE_CUTOFF - SPACE_LOOKBACK, SAFE_CUTOFF))

\* A finalized text that is not cut at the break point
FinalizedTextWhole(streaming_text, break_point) ==
    TCat(streaming_text, Enc(CONTINUED_MARKER))

\* finalized_text
FinalizedText(streaming_text, break_point) ==
    TCat(TTake(streaming_text, break_point), Enc(CONTINUED_MARKER))

\* remainder, cut one character after the break point
RemainderPastBreak(streaming_text, break_point) ==
    TLStrip(TDrop(streaming_text, break_point + 1))

\* remainder
Remainder(streaming_text, break_point) == TLStrip(TDrop(streaming_text, break_point))

\* the streaming_text of a continuation, every one numbered 1
ContinuationTextFirst(continuation_count, remainder) ==
    TCat(Enc(CONTINUATION_PREFIX \o IntToStr(1) \o CONTINUATION_SUFFIX), remainder)

\* the streaming_text a continuation starts with
ContinuationText(continuation_count, remainder) ==
    TCat(Enc(CONTINUATION_PREFIX \o IntToStr(continuation_count) \o CONTINUATION_SUFFIX),
         remainder)

\* The handle left open by a split that does not reset it
HandleKeptAfterSplit(streaming_msg_ts) == streaming_msg_ts

\* The handle left open by a split
HandleAfterSplit(streaming_msg_ts) == None

\* The over-length branch: finalize the open message, keep the remainder.
\* splits records, for each split, the text it cut, where, the handle that
\* was open, what it computed, the step of main it is made in (site) and
\* the number of sink calls made before it (at).
SplitAt(st, meta, break_point) ==
    LET text == st.streaming_text
        open == st.streaming_msg_ts # None
        finalized_text == FinalizedText(text, break_point)
        s1 == IF open
              THEN update_slack_message(st, st.streaming_msg_ts, finalized_text,
                                        [meta EXCEPT !.kind = "finalize"])
              ELSE st
        remainder == Remainder(text, break_point)
        count == st.continuation_count + 1
    IN IF s1.raised THEN s1
       ELSE [s1 EXCEPT !.all_message_ts_list =
                           IF open THEN Append(@, st.streaming_msg_ts) ELSE @,
                       !.continuation_count = count,
                       !.streaming_text = ContinuationText(count, remainder),
                       !.streaming_msg_ts = HandleAfterSplit(st.streaming_msg_ts),
                       !.last_streamed_len = 0,
                       !.splits = Append(@, [text |-> text, break_point |-> break_point,
                                             ts |-> st.streaming_msg_ts,
                                             finalized_text |-> IF open THEN finalized_text ELSE <<>>,
                                             remainder |-> remainder,
                                             new_text |-> ContinuationText(count, remainder),
                                             count |-> count, site |-> st.site,
                                             at |-> Len(st.sink_log)])]

\* Lines 463-488: the break point is found, then the text is split there
SplitMessage(st, force, meta) == SplitAt(st, meta, BreakPoint(st.streaming_text))

\* Update the open message and, when that fails, create one at once
DeliverOrCreate(st, force, meta) ==
    LET display_text == DisplayText(st.streaming_text, force)
        s0 == IF st.streaming_msg_ts # None
              THEN update_slack_message(st, st.streaming_msg_ts, display_text, meta)
              ELSE [st EXCEPT !.ret = FALSE]
    IN IF s0.raised \/ s0.ret THEN s0
       ELSE LET s1 == send_slack(s0, display_text, meta)
            IN IF s1.raised THEN s1
               ELSE IF s1.ret # None
               THEN [s1 EXCEPT !.streaming_msg_ts = s1.ret, !.ret = TRUE]
               ELSE print_stderr([s1 EXCEPT !.ret = FALSE])

\* Lines 494-508: update the open message, or create one; the failure of a
\* forced update and the failure of a create are printed
Deliver(st, force, meta) ==
    LET display_text == DisplayText(st.streaming_text, force)
    IN IF st.raised THEN st
       ELSE IF st.streaming_msg_ts # None
       THEN LET s1 == update_slack_message(st, st.streaming_msg_ts, display_text, meta)
            IN IF ~s1.raised /\ ~s1.ret /\ force THEN print_stderr(s1) ELSE s1
       ELSE LET s1 == send_slack(st, display_text, meta)
            IN IF s1.raised THEN s1
               ELSE IF s1.ret # None
               THEN [s1 EXCEPT !.streaming_msg_ts = s1.ret, !.ret = TRUE]
               ELSE print_stderr([s1 EXCEPT !.ret = FALSE])

\* A flush that forgets the text it has sent
FlushedAndCleared(st, now_ms) ==
    [st EXCEPT !.last_stream_update = now_ms,
               !.last_streamed_len = TLen(st.streaming_text),
               !.streaming_text = <<>>]

\* A flush that advances the throttle only when the sink call succeeded
FlushedOnSuccess(st, now_ms) ==
    IF st.ret
    THEN [st EXCEPT !.last_stream_update = now_ms,
                    !.last_streamed_len = TLen(st.streaming_text)]
    ELSE st

\* A flush that remembers the length of the text as displayed, typing
\* indicator included
FlushedDisplayLength(st, now_ms) ==
    [st EXCEPT !.last_stream_update = now_ms,
               !.last_streamed_len = TLen(DisplayText(st.streaming_text, FALSE))]

\* Lines 510-511: the time and the length of the flush are remembered
Flushed(st, now_ms) ==
    [st EXCEPT !.last_stream_update = now_ms,
               !.last_streamed_len = TLen(st.streaming_text)]

\* Lines 510-511 are reached unless a print of the delivery raised
Remembered(st, now_ms) == IF st.raised THEN st ELSE Flushed(st, now_ms)

\* update_stream_if_needed(force); the clock is read once, on entry
update_stream_if_needed(st, force) ==
    LET now == st.now + Head(st.ticks)
        s0 == [st EXCEPT !.now = now, !.ticks = Tail(@)]
        new_chars == TLen(st.streaming_text) - st.last_streamed_len
        time_elapsed == now - st.last_stream_update
        meta == Meta("stream", force, new_chars, time_elapsed)
    IN IF st.raised THEN st
       ELSE IF ~ShouldUpdate(force, new_chars, time_elapsed) \/ st.streaming_text = <<>>
       THEN [s0 EXCEPT !.ret = TRUE]
       ELSE Remembered(Deliver(IF TLen(DisplayText(s0.streaming_text, force))
                                      > SLACK_MAX_MESSAGE_LENGTH
                                  THEN SplitMessage(s0, force, meta)
                                  ELSE s0,
                               force, meta),
                       now)


(***************************************************************************)
(* The event classifier and action reporter: process_line.                 *)
(*                                                                         *)
(* A line of the event source is given by what json.loads makes of it:     *)
(*   kind "raw"       not JSON; raw is the line's characters               *)
(*   kind "scalar"    JSON, but not an object (a number, string or list)   *)
(*   kind "assistant" an object of type assistant with message.content     *)
(*   kind "result"    an object of type result                             *)
(*   kind "other"     any other object                                     *)
(* A content item has type "text", "tool_use" or "scalar" (not an object). *)
(***************************************************************************)
N_Edit ==
    <<"E", "d", "i", "t">>
N_Write ==
    <<"W", "r", "i", "t", "e">>
N_Read ==
    <<"R", "e", "a", "d">>
N_Bash ==
    <<"B", "a", "s", "h">>
N_Glob ==
    <<"G", "l", "o", "b">>
N_Grep ==
    <<"G", "r", "e", "p">>
N_WebFetch ==
    <<"W", "e", "b", "F", "e", "t", "c", "h">>
N_WebSearch ==
    <<"W", "e", "b", "S", "e", "a", "r", "c", "h">>
N_Task ==
    <<"T", "a", "s", "k">>
MCP_PREFIX ==
    <<"m", "c", "p", "_", "_">>
DEFAULT_DESCRIPTION ==
    <<"a", "g", "e", "n", "t", " ", "t", "a", "s", "k">>
GLOB_MSG_PREFIX ==
    <<"S", "e", "a", "r", "c", "h", "i", "n", "g", " ", "f", "o", "r", " ", "f", "i", "l", "e", "s", " ", BACKTICK>>
GREP_MSG_PREFIX ==
    <<"S", "e", "a", "r", "c", "h", "i", "n", "g", " ", "i", "n", " ", "f", "i", "l", "e", "s", " ", "f", "o", "r", " ", BACKTICK>>
FETCH_MSG_PREFIX ==
    <<"F", "e", "t", "c", "h", "i", "n", "g", " ", BACKTICK>>
SEARCH_MSG_PREFIX ==
    <<"S", "e", "a", "r", "c", "h", "i", "n", "g", " ", "t", "h", "e", " ", "w", "e", "b", ":", " ", BACKTICK>>
BACKTICK_DOTS ==
    <<BACKTICK, ".", ".", ".">>
TASK_MSG_PREFIX ==
    <<"S", "p", "a", "w", "n", "i", "n", "g", " ", "a", "g", "e", "n", "t", ":", " ">>
MCP_MSG_PREFIX ==
    <<"C", "a", "l", "l", "i", "n", "g", " ">>
SKIP_PREFIXES ==
    { <<"c", "a", "t", " ">>, <<"h", "e", "a", "d", " ">>, <<"t", "a", "i", "l", " ">>,
      <<"l", "s", " ">>, <<"p", "w", "d">>, <<"e", "c", "h", "o", " ">>,
      <<"g", "r", "e", "p", " ">>, <<"f", "i", "n", "d", " ">>,
      <<"s", "o", "u", "r", "c", "e", " ">> }

\* dict.get(key, default) on a tool's input mapping
Get(input, key, default) == IF key \in DOMAIN input THEN input[key] ELSE default

\* file_path.split("/")[-1]
FileName(file_path) == LET parts == Split(file_path, <<"/">>) IN parts[Len(parts)]

\* cmd_str[:50] + "..." if len(cmd_str) > 50 else cmd_str (and the same for a query, at 40)
Shorten(text, limit) == IF Len(text) > limit THEN Take(text, limit) \o ELLIPSIS ELSE text

\* Where a record goes (lines 57-74 and logging's handler of last resort):
\* to the handler of the log file when the logger has one; otherwise, at
\* the levels warning and error, to sys.stderr, and the write is what raises
\* when sys.stderr is closed
LogRaises(st, level) == ~st.handler /\ ~st.stderr /\ level # "info"

\* log_event(level, message)
log_event(st, level, event) ==
    IF st.raised THEN st
    ELSE [st EXCEPT !.log_events = Append(@, [level |-> level, event |-> event]),
                    !.raised = LogRaises(st, level)]

\* An except clause has caught the exception
Caught(st) == [st EXCEPT !.raised = FALSE]

\* time.sleep(ms / 1000)
Slept(st, ms) == IF st.raised THEN st ELSE [st EXCEPT !.now = @ + ms]

\* The values of a result record that process_line stores as they are: a
\* JSON number or a JSON string
Num(n) == [type |-> "number", num |-> n, str |-> <<>>]
Str(s) == [type |-> "string", num |-> 0, str |-> s]

\* bool(value)
Truthy(value) == IF value.type = "number" THEN value.num # 0 ELSE value.str # <<>>

\* The usage of a result record: an object of token counts (a count that is
\* missing is read as 0), or a JSON string
Usage(input_tokens, cache_read_input_tokens, cache_creation_input_tokens, output_tokens) ==
    [type |-> "object", str |-> <<>>,
     input_tokens |-> input_tokens, cache_read_input_tokens |-> cache_read_input_tokens,
     cache_creation_input_tokens |-> cache_creation_input_tokens,
     output_tokens |-> output_tokens]
UsageStr(s) == [Usage(Num(0), Num(0), Num(0), Num(0)) EXCEPT !.type = "string", !.str = s]

\* A notification for the tool event just recorded (the last of tool_events)
Notified(st) == [st EXCEPT !.notifications = Append(@, Len(st.tool_events))]

\* The Edit and Write branches: report a file once, inside the streamed text
ReportFile(st, tool_input, prefix, event) ==
    LET file_path == Get(tool_input, "file_path", <<>>)
        filename == FileName(file_path)
    IN IF file_path # <<>> /\ filename \notin st.reported_files
       THEN log_event(
              update_stream_if_needed(
                Notified([st EXCEPT !.reported_files = @ \cup {filename},
                                    !.streaming_text =
                                        TCat(@, Enc(prefix \o filename \o NOTIFY_SUFFIX))]),
                TRUE),
              "info", event)
       ELSE st

\* Whether a Bash command is reported and counted
IsReportedCommand(cmd_str) == cmd_str # <<>> /\ ~StartsWithAny(cmd_str, SKIP_PREFIXES)

\* The Bash branch
ReportCommand(st, tool_input) ==
    LET cmd_str == Get(tool_input, "command", <<>>)
        display_cmd == Shorten(cmd_str, DISPLAY_CMD_MAX)
    IN IF IsReportedCommand(cmd_str)
       THEN log_event(
              update_stream_if_needed(
                Notified([st EXCEPT !.commands = @ + 1,
                                    !.streaming_text =
                                        TCat(@, Enc(RUNNING_PREFIX \o display_cmd \o NOTIFY_SUFFIX))]),
                TRUE),
              "info", "Tool: Bash")
       ELSE st

\* The Glob and Grep branches: one report per kind
ReportSearch(st, tool_input, action_key, prefix, limit, event) ==
    LET pattern == Get(tool_input, "pattern", <<>>)
    IN IF pattern # <<>> /\ action_key \notin st.reported_actions
       THEN log_event(
              post_slack(Notified([st EXCEPT !.reported_actions = @ \cup {action_key}]),
                         Enc(prefix \o Take(pattern, limit) \o BACKTICK_DOTS), PlainMeta("notify")),
              "info", event)
       ELSE st

\* url.split("/")[2] if "/" in url else url; IndexError when there is no third part
HasDomain(url) == ~Contains(url, <<"/">>) \/ Len(Split(url, <<"/">>)) >= 3
Domain(url) == IF Contains(url, <<"/">>) THEN Split(url, <<"/">>)[3] ELSE url

\* The WebFetch branch
ReportFetch(st, tool_input) ==
    LET url == Get(tool_input, "url", <<>>)
    IN IF url = <<>> THEN st
       ELSE IF ~HasDomain(url) THEN [st EXCEPT !.raised = TRUE]
       ELSE log_event(
              post_slack(Notified(st), Enc(FETCH_MSG_PREFIX \o Domain(url) \o BACKTICK_DOTS),
                         PlainMeta("notify")),
              "info", "Tool: WebFetch")

\* The WebSearch branch
ReportWebSearch(st, tool_input) ==
    LET query == Get(tool_input, "query", <<>>)
    IN IF query = <<>> THEN st
       ELSE log_event(
              post_slack(Notified(st),
                         Enc(SEARCH_MSG_PREFIX \o Shorten(query, DISPLAY_QUERY_MAX) \o BACKTICK_DOTS),
                         PlainMeta("notify")),
              "info", "Tool: WebSearch")

\* The Task branch
ReportTask(st, tool_input) ==
    LET description == Get(tool_input, "description", DEFAULT_DESCRIPTION)
    IN log_event(
         post_slack(Notified(st), Enc(TASK_MSG_PREFIX \o description \o ELLIPSIS),
                    PlainMeta("notify")),
         "info", "Tool: Task")

\* The mcp__server__action branch
ReportMcp(st, tool_name) ==
    LET parts == Split(tool_name, <<"_", "_">>)
        server == parts[2]
        action == parts[3]
        action_key == <<"m", "c", "p", "_">> \o server
    IN IF Len(parts) >= 3 /\ action_key \notin st.reported_actions
       THEN log_event(
              post_slack(Notified([st EXCEPT !.reported_actions = @ \cup {action_key}]),
                         Enc(MCP_MSG_PREFIX \o server \o <<":", " ">> \o action \o ELLIPSIS),
                         PlainMeta("notify")),
              "info", "Tool: MCP")
       ELSE st

\* The Read branch with a note of the read put into the streamed text
CountAndNoteRead(st) ==
    log_event(Notified([st EXCEPT !.reads = @ + 1,
                                  !.streaming_text = TCat(@, Enc(N_Read \o NOTIFY_SUFFIX))]),
              "info", "Tool: Read")

\* The Read branch that logs without counting
LogReadOnly(st) == log_event(st, "info", "Tool: Read")

\* The Read branch: counted and logged, nothing more
CountRead(st) == log_event([st EXCEPT !.reads = @ + 1], "info", "Tool: Read")

\* One tool_use item
HandleTool(st, item) ==
    LET tool_name == item.name
        tool_input == item.input
        s0 == [st EXCEPT !.tool_events = Append(@, [name |-> tool_name, input |-> tool_input])]
    IN CASE tool_name = N_Edit ->
              ReportFile([s0 EXCEPT !.edits = @ + 1], tool_input, EDITING_PREFIX, "Tool: Edit")
         [] tool_name = N_Write ->
              ReportFile([s0 EXCEPT !.writes = @ + 1], tool_input, CREATING_PREFIX, "Tool: Write")
         [] tool_name = N_Read -> CountRead(s0)
         [] tool_name = N_Bash ->
              ReportCommand(s0, tool_input)
         [] tool_name = N_Glob ->
              ReportSearch([s0 EXCEPT !.globs = @ + 1], tool_input, <<"g", "l", "o", "b">>,
                           GLOB_MSG_PREFIX, Len(Get(tool_input, "pattern", <<>>)), "Tool: Glob")
         [] tool_name = N_Grep ->
              ReportSearch([s0 EXCEPT !.greps = @ + 1], tool_input, <<"g", "r", "e", "p">>,
                           GREP_MSG_PREFIX, GREP_PATTERN_MAX, "Tool: Grep")
         [] tool_name = N_WebFetch ->
              ReportFetch([s0 EXCEPT !.web_fetches = @ + 1], tool_input)
         [] tool_name = N_WebSearch ->
              ReportWebSearch([s0 EXCEPT !.web_searches = @ + 1], tool_input)
         [] tool_name = N_Task ->
              ReportTask([s0 EXCEPT !.tasks = @ + 1], tool_input)
         [] StartsWith(tool_name, MCP_PREFIX) ->
              ReportMcp([s0 EXCEPT !.mcp_calls = @ + 1], tool_name)
         [] OTHER -> s0

\* The first loop over content: text items are appended and flushed
RECURSIVE TextLoop(_, _, _)
TextLoop(st, content, i) ==
    IF i > Len(content) \/ st.raised THEN st
    ELSE LET item == content[i]
         IN IF item.type = "scalar" THEN [st EXCEPT !.raised = TRUE]
            ELSE IF item.type = "text" /\ item.text # <<>>
            THEN TextLoop(update_stream_if_needed(
                            [st EXCEPT !.streaming_text = TCat(@, item.text),
                                       !.text_deltas = @ + 1], FALSE),
                          content, i + 1)
            ELSE TextLoop(st, content, i + 1)

\* The second loop over content: tool_use items are counted and reported
RECURSIVE ToolLoop(_, _, _)
ToolLoop(st, content, i) ==
    IF i > Len(content) \/ st.raised THEN st
    ELSE LET item == content[i]
         IN IF item.type = "tool_use"
            THEN ToolLoop(HandleTool(st, item), content, i + 1)
            ELSE ToolLoop(st, content, i + 1)

\* process_line(line); st.raised tells that it raised
process_line(st, line) ==
    CASE line.kind = "raw" ->
           LET stripped == Strip(line.raw)
           IN IF stripped = <<>> THEN st
              ELSE [st EXCEPT !.error_lines = Append(@, stripped)]
      [] line.kind = "scalar" -> [st EXCEPT !.raised = TRUE]
      [] line.kind = "assistant" -> ToolLoop(TextLoop(st, line.content, 1), line.content, 1)
      [] line.kind = "result" ->
           [st EXCEPT !.final_result = line.result,
                      !.result_stats = [duration_ms |-> line.duration_ms,
                                        cost |-> line.cost,
                                        usage |-> line.usage]]
      [] OTHER -> st


(***************************************************************************)
(* The state of main.  pc is the position in main; raised tells that an    *)
(* exception is propagating out of the guarded section; reactions holds    *)
(* the reactions main has asked for with add_reaction and not asked to     *)
(* remove with remove_reaction.  The variables                             *)
(* from edits to all_message_ts_list are the locals that process_line and  *)
(* update_stream_if_needed capture.  now, next_ts and sink_log are the     *)
(* clock and the chat sink; log_events is what log_event has recorded.     *)
(* splits, tool_events and notifications are history: the splits           *)
(* performed, the tool_use items handled, and which of them were reported; *)
(* process_log is what main did with the process, in order, and            *)
(* text_deltas counts the text items appended to streaming_text.  stderr   *)
(* tells that sys.stderr is open for the run, handler that the logger was  *)
(* given the handler of the log file (lines 64-74).  script names the file  *)
(* that runs: claude-streamer-dev.py or claude-streamer.py.                *)
(***************************************************************************)
VARIABLES pc, raised, reactions, temp_dir, restarted, process_log, eof, first_line,
          nlines, returncode, attempt, final_update_success,
          edits, writes, reads, commands, globs, greps, web_fetches, web_searches,
          tasks, mcp_calls, final_result, result_stats,
          reported_files, reported_actions, error_lines,
          streaming_text, streaming_msg_ts, last_stream_update, last_streamed_len,
          continuation_count, all_message_ts_list,
          now, next_ts, sink_log, log_events, splits, tool_events, notifications,
          text_deltas, stderr, handler, script

control == <<pc, raised, reactions, temp_dir, restarted, process_log, eof, first_line,
             nlines, returncode, attempt, final_update_success>>

locals == <<edits, writes, reads, commands, globs, greps, web_fetches, web_searches,
            tasks, mcp_calls, final_result, result_stats,
            reported_files, reported_actions, error_lines,
            streaming_text, streaming_msg_ts, last_stream_update, last_streamed_len,
            continuation_count, all_message_ts_list,
            now, next_ts, sink_log, log_events, splits, tool_events, notifications,
            text_deltas, stderr, handler, script>>

vars == <<control, locals>>

control_but_pc == <<raised, reactions, temp_dir, restarted, process_log, eof, first_line,
                    nlines, returncode, attempt, final_update_success>>

(***************************************************************************)
(* Bounds of the model.                                                    *)
(***************************************************************************)
\* Lines read from the event source in one run, per input alphabet
MaxLines == 2
MaxLongLines == 2
MaxToolLines == 2
MaxOddLines == 3
MaxCountLines == 2
MaxRawLines == 6
MaxStartLines == 2
MaxFaultLines == 2
MaxStatsLines == 2
MaxStreamerLines == 2

\* The clock when the run starts, in ms.  Only differences of clock values
\* matter, except that the first one is taken from last_stream_update = 0
\* and exceeds the update interval, as it does for any real date.
StartMs == 100000

\* Time that passes while main waits for the process to exit, in ms
WaitMs == 10

\* Time that passes before a reading of the clock, in ms
TickChoices == {10, STREAM_UPDATE_INTERVAL_MS}

\* What process.returncode can be
ReturnCodes == {0, 1}

NoLine == [kind |-> "none"]

NoUsage == Usage(Num(0), Num(0), Num(0), Num(0))

\* The captured locals and the environment, as one value for the operators above
St(site, oks, ticks) ==
    [edits |-> edits, writes |-> writes, reads |-> reads, commands |-> commands,
     globs |-> globs, greps |-> greps, web_fetches |-> web_fetches,
     web_searches |-> web_searches, tasks |-> tasks, mcp_calls |-> mcp_calls,
     final_result |-> final_result, result_stats |-> result_stats,
     reported_files |-> reported_files, reported_actions |-> reported_actions,
     error_lines |-> error_lines,
     streaming_text |-> streaming_text, streaming_msg_ts |-> streaming_msg_ts,
     last_stream_update |-> last_stream_update, last_streamed_len |-> last_streamed_len,
     continuation_count |-> continuation_count, all_message_ts_list |-> all_message_ts_list,
     now |-> now, next_ts |-> next_ts, sink_log |-> sink_log, log_events |-> log_events,
     splits |-> splits, tool_events |-> tool_events, notifications |-> notifications,
     text_deltas |-> text_deltas,
     stderr |-> stderr, handler |-> handler,
     site |-> site, oks |-> oks, acks |-> <<>>, excs |-> <<>>, ticks |-> ticks,
     ret |-> TRUE, raised |-> FALSE]

\* The locals and the environment after an operator returned r
Commit(r) ==
    /\ edits' = r.edits /\ writes' = r.writes /\ reads' = r.reads
    /\ commands' = r.commands /\ globs' = r.globs /\ greps' = r.greps
    /\ web_fetches' = r.web_fetches /\ web_searches' = r.web_searches
    /\ tasks' = r.tasks /\ mcp_calls' = r.mcp_calls
    /\ final_result' = r.final_result /\ result_stats' = r.result_stats
    /\ reported_files' = r.reported_files /\ reported_actions' = r.reported_actions
    /\ error_lines' = r.error_lines
    /\ streaming_text' = r.streaming_text /\ streaming_msg_ts' = r.streaming_msg_ts
    /\ last_stream_update' = r.last_stream_update
    /\ last_streamed_len' = r.last_streamed_len
    /\ continuation_count' = r.continuation_count
    /\ all_message_ts_list' = r.all_message_ts_list
    /\ now' = r.now /\ next_ts' = r.next_ts /\ sink_log' = r.sink_log
    /\ log_events' = r.log_events /\ splits' = r.splits
    /\ tool_events' = r.tool_events /\ notifications' = r.notifications
    /\ text_deltas' = r.text_deltas
    /\ stderr' = r.stderr /\ handler' = r.handler
    /\ script' = script

\* The two scripts of the repository
DEV_SCRIPT == "claude-streamer-dev.py"
STREAMER_SCRIPT == "claude-streamer.py"

\* The environment of a run: sys.stderr open or closed, and the logger with
\* or without the handler of its log file
Sound == [stderr |-> TRUE, handler |-> TRUE]
Environments == [stderr : BOOLEAN, handler : BOOLEAN]

\* How lines 239-271 end, which no try covers: main goes on to its guarded
\* section ("entered"); or the message argument is not base64 of UTF-8 text
\* and its decoding raises (line 239), before the start of the session is
\* logged and before the reaction is asked for ("no_message"); or os.getuid,
\* os.path.exists or tempfile.mkdtemp raises and main is left without a
\* directory ("no_directory"); or os.chmod raises and main is left with the
\* directory made ("chmod_failed").  Where
\* sys.stderr is closed a print raises as well: the one of add_reaction
\* (line 148, its request having raised), which leaves main as
\* "no_directory" does, and the one of line 255 (the files argument cannot
\* be parsed), which leaves main before the reaction is asked for
\* ("no_reaction").
StartOutcomes == {"entered", "no_message", "no_directory", "chmod_failed"}
StartOutcomesIn(env) == IF env.stderr THEN StartOutcomes ELSE StartOutcomes \cup {"no_reaction"}

\* Lines 214-271 and 408-434: main at the start of its guarded section, or
\* left before it.  It gets past line 231 only with a token and its
\* arguments (it exits at lines 220 and 231 otherwise, before anything is
\* acquired or recorded, as "no_message" leaves it).  The message is
\* decoded (line 239), the start of
\* the session is logged (line 245), the processing reaction is asked for
\* (line 263) and the temporary directory is made (line 269), unless an
\* exception leaves main on the way.
Started(env, outcome) ==
    /\ script = DEV_SCRIPT
    /\ stderr = env.stderr /\ handler = env.handler
    /\ pc = (IF outcome = "entered" THEN "prepare" ELSE "done")
    /\ raised = (outcome # "entered")
    /\ reactions = (IF outcome \in {"no_message", "no_reaction"} THEN {}
                    ELSE {PROCESSING_EMOJI})
    /\ temp_dir = (outcome \in {"entered", "chmod_failed"})
    /\ restarted = FALSE /\ process_log = <<>>
    /\ eof = FALSE /\ first_line = NoLine /\ nlines = 0
    /\ returncode = 0 /\ attempt = 0 /\ final_update_success = FALSE
    /\ edits = 0 /\ writes = 0 /\ reads = 0 /\ commands = 0 /\ globs = 0 /\ greps = 0
    /\ web_fetches = 0 /\ web_searches = 0 /\ tasks = 0 /\ mcp_calls = 0
    /\ final_result = <<>>
    /\ result_stats = [duration_ms |-> Num(0), cost |-> Num(0), usage |-> NoUsage]
    /\ reported_files = {} /\ reported_actions = {} /\ error_lines = <<>>
    /\ streaming_text = <<>> /\ streaming_msg_ts = None
    /\ last_stream_update = 0 /\ last_streamed_len = 0
    /\ continuation_count = 0 /\ all_message_ts_list = <<>>
    /\ now = StartMs /\ next_ts = 1 /\ sink_log = <<>>
    /\ log_events = (IF outcome = "no_message" THEN <<>>
                     ELSE <<[level |-> "info", event |-> "Session started"]>>)
    /\ splits = <<>> /\ tool_events = <<>> /\ notifications = <<>>
    /\ text_deltas = 0

\* A run where sys.stderr is open and the logger has its handler
Init == \E outcome \in StartOutcomes : Started(Sound, outcome)

\* A run in any environment
InitFaults == \E env \in Environments : \E outcome \in StartOutcomesIn(env) : Started(env, outcome)

\* Which of the two reaction requests that end a run leaves main by an
\* exception: remove_reaction and add_reaction print the exception of their
\* request (lines 160 and 148), and where sys.stderr is closed that print
\* raises
ReactionFaults == IF stderr THEN {"none"} ELSE {"none", "remove_reaction", "add_reaction"}

\* The reactions after remove_reaction(PROCESSING_EMOJI) and
\* add_reaction(emoji), the second of which is not reached when the first
\* raises
Swapped(rs, emoji, fault) ==
    IF fault = "remove_reaction" THEN rs \ {PROCESSING_EMOJI}
    ELSE (rs \ {PROCESSING_EMOJI}) \cup {emoji}

(***************************************************************************)
(* Texts of main.                                                          *)
(***************************************************************************)
HELP_PROMPT ==
    <<"H", "e", "y", "!", " ", "H", "o", "w", " ", "c", "a", "n", " ", "I", " ", "h", "e", "l", "p", " ", "y", "o", "u", "?", " ", "J", "u", "s", "t", " ", "t", "y", "p", "e", " ", "y", "o", "u", "r", " ", "q", "u", "e", "s", "t", "i", "o", "n", " ", "o", "r", " ", "r", "e", "q", "u", "e", "s", "t", " ", "a", "f", "t", "e", "r", " ", "m", "e", "n", "t", "i", "o", "n", "i", "n", "g", " ", "m", "e", ".">>
ERROR_PREFIX ==
    <<"S", "o", "r", "r", "y", ",", " ", "s", "o", "m", "e", "t", "h", "i", "n", "g", " ", "w", "e", "n", "t", " ", "w", "r", "o", "n", "g", ":", " ">>
ERROR_GENERIC ==
    <<"S", "o", "r", "r", "y", ",", " ", "s", "o", "m", "e", "t", "h", "i", "n", "g", " ", "w", "e", "n", "t", " ", "w", "r", "o", "n", "g", " ", "p", "r", "o", "c", "e", "s", "s", "i", "n", "g", " ", "y", "o", "u", "r", " ", "r", "e", "q", "u", "e", "s", "t", ".">>
DONE_PREFIX ==
    <<"D", "o", "n", "e", ":", " ">>
COMMA_SPACE ==
    <<",", " ">>
V_READ ==
    <<"r", "e", "a", "d", " ">>
V_EDITED ==
    <<"e", "d", "i", "t", "e", "d", " ">>
V_CREATED ==
    <<"c", "r", "e", "a", "t", "e", "d", " ">>
V_RAN ==
    <<"r", "a", "n", " ">>
V_SEARCHED ==
    <<"s", "e", "a", "r", "c", "h", "e", "d", " ">>
V_GREPPED ==
    <<"g", "r", "e", "p", "p", "e", "d", " ">>
V_FETCHED ==
    <<"f", "e", "t", "c", "h", "e", "d", " ">>
V_WEB_SEARCHED ==
    <<"w", "e", "b", " ", "s", "e", "a", "r", "c", "h", "e", "d", " ">>
V_SPAWNED ==
    <<"s", "p", "a", "w", "n", "e", "d", " ">>
V_CALLED ==
    <<"c", "a", "l", "l", "e", "d", " ">>
U_FILES ==
    <<" ", "f", "i", "l", "e", "(", "s", ")">>
U_COMMANDS ==
    <<" ", "c", "o", "m", "m", "a", "n", "d", "(", "s", ")">>
U_PATTERNS ==
    <<" ", "p", "a", "t", "t", "e", "r", "n", "(", "s", ")">>
U_TIMES ==
    <<" ", "t", "i", "m", "e", "(", "s", ")">>
U_URLS ==
    <<" ", "U", "R", "L", "(", "s", ")">>
U_AGENTS ==
    <<" ", "a", "g", "e", "n", "t", "(", "s", ")">>
U_MCP_TOOLS ==
    <<" ", "M", "C", "P", " ", "t", "o", "o", "l", "(", "s", ")">>

\* sep.join(parts)
RECURSIVE Join(_, _)
Join(parts, sep) ==
    IF parts = <<>> THEN <<>>
    ELSE IF Len(parts) = 1 THEN parts[1]
    ELSE parts[1] \o sep \o Join(Tail(parts), sep)

\* One phrase of the summary, present whatever its counter
PhraseOfAny(verb, count, unit) == << verb \o IntToStr(count) \o unit >>

\* One phrase of the summary, present when its counter is positive
Phrase(verb, count, unit) ==
    IF count > 0 THEN << verb \o IntToStr(count) \o unit >> ELSE <<>>

\* summary_parts
SummaryParts(st) ==
    Phrase(V_READ, st.reads, U_FILES) \o Phrase(V_EDITED, st.edits, U_FILES)
    \o Phrase(V_CREATED, st.writes, U_FILES) \o Phrase(V_RAN, st.commands, U_COMMANDS)
    \o Phrase(V_SEARCHED, st.globs, U_PATTERNS) \o Phrase(V_GREPPED, st.greps, U_TIMES)
    \o Phrase(V_FETCHED, st.web_fetches, U_URLS)
    \o Phrase(V_WEB_SEARCHED, st.web_searches, U_TIMES)
    \o Phrase(V_SPAWNED, st.tasks, U_AGENTS) \o Phrase(V_CALLED, st.mcp_calls, U_MCP_TOOLS)

\* Whether the three input counts of a usage can be added (line 741): they
\* are all numbers or all strings
InputsAdd(usage) ==
    {usage.input_tokens.type, usage.cache_read_input_tokens.type,
     usage.cache_creation_input_tokens.type} \in {{"number"}, {"string"}}

\* input_tokens (line 741) where the counts can be added: the sum of three
\* numbers, or three strings one after the other
InputTokens(usage) ==
    IF usage.input_tokens.type = "number"
    THEN Num(usage.input_tokens.num + usage.cache_read_input_tokens.num
             + usage.cache_creation_input_tokens.num)
    ELSE Str(usage.input_tokens.str \o usage.cache_read_input_tokens.str
             \o usage.cache_creation_input_tokens.str)

\* Lines 731-744 raise on values that are not numbers: a duration or a cost
\* that is a string that is not empty is divided or formatted as a number
\* (lines 733 and 738), a usage that is such a string has no get (line 741),
\* token counts of both types cannot be added (line 741), and a sum or an
\* output count that is a string cannot be formatted with a separator of
\* thousands (line 744), which is done when the sum or the output count is
\* not 0 or empty (line 743)
StatsRaise(stats) ==
    LET usage == stats.usage
    IN \/ stats.duration_ms.type = "string" /\ Truthy(stats.duration_ms)
       \/ stats.cost.type = "string" /\ Truthy(stats.cost)
       \/ usage.type = "string" /\ usage.str # <<>>
       \/ /\ usage.type = "object"
          /\ \/ ~InputsAdd(usage)
             \/ /\ Truthy(InputTokens(usage)) \/ Truthy(usage.output_tokens)
                /\ "string" \in {InputTokens(usage).type, usage.output_tokens.type}

\* stats_parts when lines 731-744 do not raise, each part by its figures (the
\* number formatting is not modelled)
StatsParts(st) ==
    LET usage == st.result_stats.usage
        input_tokens == usage.input_tokens.num + usage.cache_read_input_tokens.num
                        + usage.cache_creation_input_tokens.num
        output_tokens == usage.output_tokens.num
    IN (IF Truthy(st.result_stats.duration_ms)
        THEN << <<"duration_ms", st.result_stats.duration_ms.num>> >> ELSE <<>>)
       \o (IF Truthy(st.result_stats.cost)
           THEN << <<"cost", st.result_stats.cost.num>> >> ELSE <<>>)
       \o (IF input_tokens # 0 \/ output_tokens # 0
           THEN << <<"tokens", input_tokens, output_tokens>> >> ELSE <<>>)

\* fallback_text cut from the start of the text
FallbackTextFromStart(text) ==
    IF TLen(text) > SLACK_MAX_MESSAGE_LENGTH
    THEN TCat(Enc(FALLBACK_PREFIX), TTake(text, SLACK_MAX_MESSAGE_LENGTH - FALLBACK_TAIL_MARGIN))
    ELSE text

\* fallback_text without the cut
FallbackTextWhole(text) == text

\* fallback_text
FallbackText(text) ==
    IF TLen(text) > SLACK_MAX_MESSAGE_LENGTH
    THEN TCat(Enc(FALLBACK_PREFIX),
              TLastChars(text, SLACK_MAX_MESSAGE_LENGTH - FALLBACK_TAIL_MARGIN))
    ELSE text

\* The restart taken for any first line
HasAnyOutput(line) == line.kind # "none"

\* The strings among the figures of a result record: its duration, its
\* cost, and its usage or the token counts of its usage, where the line has
\* them as JSON strings (a number has none)
FigureStrings(line) ==
    {line.duration_ms.str, line.cost.str, line.usage.str,
     line.usage.input_tokens.str, line.usage.cache_read_input_tokens.str,
     line.usage.cache_creation_input_tokens.str, line.usage.output_tokens.str}

\* phrase in line, for a line of the process.  The test is on the line as
\* written, before it is parsed: the phrase is found in any string of a
\* record (a text, a result or a figure of a result that is a string, a
\* tool's name or parameter, a field the classifier never reads), and not in
\* a record whose letters are written as \u escapes.  The keys of the records
\* of the model do not contain the phrases looked for.
LineHas(line, phrase) ==
    LET InItem(item) ==
            CASE item.type = "text" -> TContains(item.text, phrase)
              [] item.type = "tool_use" ->
                   \/ Contains(item.name, phrase)
                   \/ \E key \in DOMAIN item.input : Contains(item.input[key], phrase)
              [] OTHER -> FALSE
        InRecord ==
            CASE line.kind = "assistant" -> \E i \in 1..Len(line.content) : InItem(line.content[i])
              [] line.kind = "result" ->
                   \/ TContains(line.result, phrase)
                   \/ \E figure \in FigureStrings(line) : Contains(figure, phrase)
              [] OTHER -> FALSE
    IN IF line.kind = "raw" THEN Contains(line.raw, phrase)
       ELSE /\ "escaped" \notin DOMAIN line
            /\ \/ InRecord
               \/ "extra" \in DOMAIN line /\ Contains(line.extra, phrase)

\* "already in use" in first_line
HasSessionDiagnostic(line) == LineHas(line, ALREADY_IN_USE)

\* Sink calls and clock readings a line can cause
FlushesOf(line) ==
    IF line.kind = "assistant"
    THEN Cardinality({i \in 1..Len(line.content) :
                        \/ line.content[i].type = "text"
                        \/ /\ line.content[i].type = "tool_use"
                           /\ line.content[i].name \in {N_Edit, N_Write, N_Bash}})
    ELSE 0
CallsOf(line) == 2 * FlushesOf(line)

\* Calls whose result is not read that a line can cause: at most one for
\* each item of its content
AcksOf(line) == IF line.kind = "assistant" THEN Len(line.content) ELSE 0

\* The answers of a sink that accepts every message whose result is not read
Accepting == {TRUE}
TicksOf(line) == FlushesOf(line)

Outcomes(n) == [1..n -> BOOLEAN]

\* For each of the n postMessage calls a step can make, whether its failure
\* is an exception of the request; with sys.stderr open the two kinds of
\* failure end alike
Excs(n) == IF stderr THEN {<<>>} ELSE [1..n -> BOOLEAN]
Ticks(n) == [1..n -> TickChoices]

(***************************************************************************)
(* Attachments.  A file_info is the mapping Slack gives for a file (keys   *)
(* url_private, url_private_download, name, mimetype, size), or a scalar  *)
(* item for an element of the list that is not an object.                 *)
(***************************************************************************)
IMAGE_EXTENSIONS == {<<".", "p", "n", "g">>, <<".", "j", "p", "g">>, <<".", "j", "p", "e", "g">>, <<".", "g", "i", "f">>, <<".", "w", "e", "b", "p">>}
PDF_EXTENSIONS == {<<".", "p", "d", "f">>}
MAX_FILE_SIZE_MB == 10
MAX_FILE_SIZE_BYTES == MAX_FILE_SIZE_MB * 1024 * 1024
MAX_FILE_COUNT == 5

\* What download_slack_file returns: (True, None), or (False, error)
DownloadResults == {"ok", "exceeds_size_limit", "download_error"}

\* s.lower(), for the letters A to Z
Lower(s) ==
    LET upper == <<"A", "B", "C", "D", "E", "F", "G", "H", "I", "J", "K", "L", "M", "N", "O", "P", "Q", "R", "S", "T", "U", "V", "W", "X", "Y", "Z">>
        lower == <<"a", "b", "c", "d", "e", "f", "g", "h", "i", "j", "k", "l", "m", "n", "o", "p", "q", "r", "s", "t", "u", "v", "w", "x", "y", "z">>
    IN [i \in 1..Len(s) |->
           IF \E k \in 1..Len(upper) : upper[k] = s[i]
           THEN lower[CHOOSE k \in 1..Len(upper) : upper[k] = s[i]]
           ELSE s[i]]

\* os.path.splitext(file_name)[1]: from the last dot of the last path
\* component, when a character other than a dot comes before it there
SplitExt(file_name) ==
    LET parts == Split(file_name, <<"/">>)
        base == parts[Len(parts)]
        dots == {i \in 1..Len(base) : base[i] = "." /\ \E j \in 1..(i - 1) : base[j] # "."}
    IN IF dots = {} THEN <<>>
       ELSE SubSeq(base, CHOOSE i \in dots : \A j \in dots : j <= i, Len(base))

\* file_info.get('url_private') or file_info.get('url_private_download')
FileUrl(file_info) ==
    IF Get(file_info, "url_private", <<>>) # <<>> THEN file_info.url_private
    ELSE Get(file_info, "url_private_download", <<>>)

FileNameOf(file_info) == Get(file_info, "name", <<"f", "i", "l", "e">>)

\* file_type: "image" or "PDF", and the empty string for a file that is
\* neither (is_image is tested first)
FileType(file_info) ==
    LET ext == Lower(SplitExt(FileNameOf(file_info)))
        mimetype == Get(file_info, "mimetype", <<>>)
    IN IF ext \in IMAGE_EXTENSIONS \/ StartsWith(mimetype, <<"i", "m", "a", "g", "e", "/">>)
       THEN <<"i", "m", "a", "g", "e">>
       ELSE IF ext \in PDF_EXTENSIONS \/ mimetype = <<"a", "p", "p", "l", "i", "c", "a", "t", "i", "o", "n", "/", "p", "d", "f">>
       THEN <<"P", "D", "F">>
       ELSE <<>>

\* f"{file_size / (1024 * 1024):.1f}": the size in MB to one decimal, a tie
\* rounded to the even digit
SizeMb(file_size) ==
    LET unit == 1024 * 1024
        q == (file_size * 10) \div unit
        r == (file_size * 10) % unit
        tenths == IF 2 * r > unit \/ (2 * r = unit /\ q % 2 = 1) THEN q + 1 ELSE q
    IN IntToStr(tenths \div 10) \o <<".">> \o IntToStr(tenths % 10)

\* Lines 276-338 of main: the supported attachments are selected, at most
\* MAX_FILE_COUNT of them are fetched, and each is answered with a message.
\* st.ret becomes the number of files downloaded; st.raised tells that an
\* element that is not an object made the selection raise (line 278), which
\* is before any message, or that a print or a log record did: a download
\* that fails is printed by download_slack_file (lines 193-211).
download_files(st, files, downloads) ==
    LET Supported(i) == FileUrl(files[i]) # <<>> /\ FileType(files[i]) # <<>>
        supported_files == SelectSeq([i \in 1..Len(files) |-> i], Supported)
        Logged(s, level, event, i) ==
            IF s.raised THEN s
            ELSE [s EXCEPT !.log_events =
                      Append(@, [level |-> level, event |-> event,
                                 file |-> FileNameOf(files[i])]),
                           !.raised = LogRaises(s, level)]
        Said(s, text) == post_slack(s, Enc(text), PlainMeta("download"))
        Named(i) == <<BACKTICK>> \o FileNameOf(files[i]) \o <<BACKTICK>>
        One(s, i) ==
            LET file_type == FileType(files[i])
                file_size == Get(files[i], "size", 0)
            IN IF s.raised THEN s
               ELSE IF file_size > MAX_FILE_SIZE_BYTES
               THEN Said(s, <<"S", "k", "i", "p", "p", "e", "d", " ">> \o file_type \o <<" ">> \o Named(i) \o <<":", " ">>
                            \o SizeMb(file_size) \o <<"M", "B", " ", "e", "x", "c", "e", "e", "d", "s", " ">>
                            \o IntToStr(MAX_FILE_SIZE_MB) \o <<"M", "B", " ", "l", "i", "m", "i", "t">>)
               ELSE IF downloads[i] = "ok"
               THEN Logged(Said([s EXCEPT !.ret = @ + 1],
                                <<"D", "o", "w", "n", "l", "o", "a", "d", "e", "d", " ">> \o file_type \o <<":", " ">> \o Named(i)),
                           "info", "File downloaded", i)
               ELSE IF downloads[i] = "exceeds_size_limit"
               THEN Logged(Said(print_stderr(s), <<"S", "k", "i", "p", "p", "e", "d", " ">> \o file_type \o <<" ">> \o Named(i)
                                   \o <<":", " ", "e", "x", "c", "e", "e", "d", "s", " ">>
                                   \o IntToStr(MAX_FILE_SIZE_MB) \o <<"M", "B", " ", "l", "i", "m", "i", "t">>),
                           "warning", "File rejected (size limit)", i)
               ELSE Logged(Said(print_stderr(s), <<"F", "a", "i", "l", "e", "d", " ", "t", "o", " ", "d", "o", "w", "n", "l", "o", "a", "d", " ">> \o file_type \o <<":", " ">> \o Named(i)),
                           "error", "File download failed", i)
        s0 == IF Len(supported_files) > MAX_FILE_COUNT
              THEN Said(st, <<"T", "o", "o", " ", "m", "a", "n", "y", " ", "f", "i", "l", "e", "s", " ", "a", "t", "t", "a", "c", "h", "e", "d", " ", "(">> \o IntToStr(Len(supported_files))
                            \o <<")", ".", " ", "M", "a", "x", "i", "m", "u", "m", " ", "i", "s", " ">> \o IntToStr(MAX_FILE_COUNT)
                            \o <<" ", "f", "i", "l", "e", "s", " ", "p", "e", "r", " ", "m", "e", "s", "s", "a", "g", "e", ".", " ", "P", "r", "o", "c", "e", "s", "s", "i", "n", "g", " ", "f", "i", "r", "s", "t", " ">> \o IntToStr(MAX_FILE_COUNT) \o <<" ", "o", "n", "l", "y", ".">>)
              ELSE st
        kept == Take(supported_files, MAX_FILE_COUNT)
        after[k \in 0..Len(kept)] ==
            IF k = 0 THEN [s0 EXCEPT !.ret = 0] ELSE One(after[k - 1], kept[k])
    IN IF \E i \in 1..Len(files) : files[i] = [type |-> "scalar"]
       THEN [st EXCEPT !.raised = TRUE]
       ELSE after[Len(kept)]

(***************************************************************************)
(* The steps of main.                                                      *)
(***************************************************************************)
\* Lines 274-370: the attachments are fetched and announced, and a message
\* that is empty with no file downloaded is answered with a prompt.  files is
\* the attachment list, downloads[i] what download_slack_file returns for
\* files[i] when it is called, message the text after line 242, answers what
\* the sink may answer to these messages.
Prepare(files, downloads, message, answers) ==
    /\ script = DEV_SCRIPT
    /\ pc = "prepare"
    /\ \E acks \in [1..(Len(files) + 2) -> answers], excs \in Excs(Len(files) + 2) :
         \E r \in {download_files([St("prepare", <<>>, <<>>)
                                      EXCEPT !.acks = acks, !.excs = excs],
                                  files, downloads)} :
            IF r.raised
            THEN /\ Commit(r)
                 /\ raised' = TRUE
                 /\ pc' = "cleanup"
                 /\ UNCHANGED reactions
            ELSE IF r.ret = 0 /\ Strip(message) = <<>>
            THEN \E h \in {post_slack(r, Enc(HELP_PROMPT), PlainMeta("prompt"))},
                    fault \in ReactionFaults :
                    /\ Commit(IF fault = "none"
                              THEN log_event(h, "info", "Empty message - sent help prompt")
                              ELSE h)
                    /\ raised' = (h.raised \/ fault # "none")
                    /\ reactions' = IF h.raised THEN reactions
                                    ELSE Swapped(reactions, SUCCESS_EMOJI, fault)
                    /\ pc' = "cleanup"
            ELSE /\ Commit(r)
                 /\ pc' = "spawn"
                 /\ UNCHANGED <<raised, reactions>>
    /\ UNCHANGED <<temp_dir, restarted, process_log, eof, first_line, nlines, returncode, attempt,
                   final_update_success>>

\* What main does with the process, in order: Popen with the session flag
\* (ok tells that the process started), a line read from its output (NoLine
\* at the end of the output), a read that raised, kill, wait; and the calls
\* of process_line
Popen(flag, ok) == [op |-> "spawn", flag |-> flag, ok |-> ok]
Readline(line) == [op |-> "readline", line |-> line]
ReadError == [op |-> "read_error"]
ProcessLineCall(line) == [op |-> "process_line", line |-> line]
Kill == [op |-> "kill"]
WaitFor == [op |-> "wait"]

\* Line 395: subprocess.Popen, which raises when the program cannot be started
Spawn ==
    /\ script = DEV_SCRIPT
    /\ pc = "spawn"
    /\ \E started \in BOOLEAN :
         /\ process_log' = Append(process_log, Popen("--session-id", started))
         /\ pc' = IF started THEN "peek" ELSE "cleanup"
         /\ raised' = ~started
    /\ UNCHANGED <<reactions, temp_dir, restarted, eof, first_line, nlines, returncode,
                   attempt, final_update_success, locals>>

\* Lines 397-405: the first line is read; on the session diagnostic the process
\* is killed and started again with --resume
PeekLine(line) ==
    /\ script = DEV_SCRIPT
    /\ pc = "peek"
    /\ nlines' = nlines + 1
    /\ IF HasSessionDiagnostic(line)
       THEN /\ restarted' = TRUE
            /\ \E started \in BOOLEAN :
                 /\ process_log' = process_log \o <<Readline(line), Kill, WaitFor,
                                                     Popen("--resume", started)>>
                 /\ first_line' = IF started THEN NoLine ELSE line
                 /\ pc' = IF started THEN "first" ELSE "cleanup"
                 /\ raised' = ~started
       ELSE /\ first_line' = line
            /\ process_log' = Append(process_log, Readline(line))
            /\ pc' = "first"
            /\ UNCHANGED <<restarted, raised>>
    /\ UNCHANGED <<reactions, temp_dir, eof, returncode, attempt, final_update_success,
                   locals>>

\* Line 398 when the process ends without output: readline returns ""
PeekEnd ==
    /\ script = DEV_SCRIPT
    /\ pc = "peek"
    /\ eof' = TRUE
    /\ process_log' = Append(process_log, Readline(NoLine))
    /\ pc' = "first"
    /\ UNCHANGED <<raised, reactions, temp_dir, restarted, first_line, nlines, returncode,
                   attempt, final_update_success, locals>>

\* Line 398 when the output cannot be decoded: readline raises, outside the
\* try of the read loop
PeekRaises ==
    /\ script = DEV_SCRIPT
    /\ pc = "peek"
    /\ process_log' = Append(process_log, ReadError)
    /\ raised' = TRUE
    /\ pc' = "cleanup"
    /\ UNCHANGED <<reactions, temp_dir, restarted, eof, first_line, nlines,
                   returncode, attempt, final_update_success, locals>>

\* Lines 643-645: the peeked line is processed, outside the try of the read
\* loop.  answers is what the sink may answer to a message whose result is
\* not read.
FirstLine(answers) ==
    /\ script = DEV_SCRIPT
    /\ pc = "first"
    /\ IF first_line = NoLine
       THEN /\ pc' = "loop"
            /\ UNCHANGED <<raised, locals>>
       ELSE \E oks \in Outcomes(CallsOf(first_line)), ticks \in Ticks(TicksOf(first_line)),
               acks \in [1..AcksOf(first_line) -> answers],
               excs \in Excs(AcksOf(first_line) + FlushesOf(first_line)) :
              \E r \in {process_line([St("loop", oks, ticks)
                                        EXCEPT !.acks = acks, !.excs = excs],
                                     first_line)} :
                 /\ Commit(r)
                 /\ raised' = r.raised
                 /\ pc' = IF r.raised THEN "cleanup" ELSE "loop"
    /\ process_log' = IF first_line = NoLine THEN process_log
                      ELSE Append(process_log, ProcessLineCall(first_line))
    /\ UNCHANGED <<reactions, temp_dir, restarted, eof, first_line, nlines, returncode,
                   attempt, final_update_success>>

\* Lines 650-652: the except clause of the read loop prints the exception and
\* logs it
ReadExcept(st) ==
    IF st.raised THEN log_event(print_stderr(Caught(st)), "error", "Error reading output")
    ELSE st

\* Lines 647-652: one iteration of the read loop; an exception of process_line
\* is caught outside the loop, which ends the reading
ReadLine(line, max, answers) ==
    /\ script = DEV_SCRIPT
    /\ pc = "loop"
    /\ ~eof
    /\ nlines < max
    /\ nlines' = nlines + 1
    /\ \E oks \in Outcomes(CallsOf(line)), ticks \in Ticks(TicksOf(line)),
          acks \in [1..AcksOf(line) -> answers],
          excs \in Excs(AcksOf(line) + FlushesOf(line)) :
         \E r \in {process_line([St("loop", oks, ticks) EXCEPT !.acks = acks, !.excs = excs],
                                line)} :
            \E h \in {ReadExcept(r)} :
               /\ Commit(h)
               /\ raised' = h.raised
               /\ pc' = IF h.raised THEN "cleanup" ELSE IF r.raised THEN "wait" ELSE "loop"
    /\ process_log' = process_log \o <<Readline(line), ProcessLineCall(line)>>
    /\ UNCHANGED <<reactions, temp_dir, restarted, eof, first_line, returncode,
                   attempt, final_update_success>>

\* Lines 648-652 when the output cannot be decoded: the iteration raises
\* before process_line is called, which is caught like an exception of
\* process_line and ends the reading
ReadRaises ==
    /\ script = DEV_SCRIPT
    /\ pc = "loop"
    /\ ~eof
    /\ \E h \in {ReadExcept([St("loop", <<>>, <<>>) EXCEPT !.raised = TRUE])} :
         /\ Commit(h)
         /\ raised' = h.raised
         /\ pc' = IF h.raised THEN "cleanup" ELSE "wait"
    /\ process_log' = Append(process_log, ReadError)
    /\ UNCHANGED <<reactions, temp_dir, restarted, eof, first_line, nlines,
                   returncode, attempt, final_update_success>>

\* The read loop finds the end of the output
EndOfOutput ==
    /\ script = DEV_SCRIPT
    /\ pc = "loop"
    /\ eof' = TRUE
    /\ pc' = "wait"
    /\ UNCHANGED <<raised, reactions, temp_dir, restarted, process_log, first_line, nlines,
                   returncode,
                   attempt, final_update_success, locals>>

\* Lines 654-658: process.wait() and the wall-clock duration
Wait ==
    /\ script = DEV_SCRIPT
    /\ pc = "wait"
    /\ \E rc \in ReturnCodes : returncode' = rc
    /\ result_stats' = IF ~Truthy(result_stats.duration_ms)
                       THEN [result_stats EXCEPT !.duration_ms = Num(now + WaitMs - StartMs)]
                       ELSE result_stats
    /\ now' = now + WaitMs
    /\ process_log' = Append(process_log, WaitFor)
    /\ attempt' = 0
    /\ pc' = "final"
    /\ UNCHANGED <<raised, reactions, temp_dir, restarted, eof, first_line, nlines,
                   final_update_success,
                   edits, writes, reads, commands, globs, greps, web_fetches, web_searches,
                   tasks, mcp_calls, final_result, reported_files, reported_actions,
                   error_lines, streaming_text, streaming_msg_ts, last_stream_update,
                   last_streamed_len, continuation_count, all_message_ts_list,
                   next_ts, sink_log, log_events, splits, tool_events, notifications,
                   text_deltas, stderr, handler, script>>

\* Line 662 with nothing streamed: no final update
FinalSkip ==
    /\ script = DEV_SCRIPT
    /\ pc = "final"
    /\ streaming_text = <<>>
    /\ pc' = "summary"
    /\ UNCHANGED <<raised, reactions, temp_dir, restarted, process_log, eof, first_line, nlines,
                   returncode, attempt, final_update_success, locals>>

\* The loop of the final update without its break: every attempt is made
AfterEveryAttempt(result, attempts_made) ==
    IF attempts_made < FINAL_ATTEMPTS THEN "final"
    ELSE IF result THEN "summary" ELSE "fallback"

\* Where main goes after an attempt of the final update: out of the loop on
\* success (break), to the next attempt, or after the last one to the fallback
AfterAttempt(result, attempts_made) ==
    IF result THEN "summary"
    ELSE IF attempts_made = FINAL_ATTEMPTS THEN "fallback"
    ELSE "final"

\* Lines 665-682: the try of an attempt, after update_stream_if_needed
\* returned or raised: its result is logged, and a failure is followed by a
\* pause
AttemptTried(r) ==
    IF r.raised THEN r
    ELSE IF r.ret THEN log_event(r, "info", "Final streaming update succeeded")
    ELSE Slept(log_event(r, "warning", "Final update attempt returned False"),
               RETRY_PAUSE_MS)

\* Lines 683-686: the except clause of an attempt logs the exception and
\* pauses; the attempt has not succeeded
AttemptExcept(t) ==
    IF t.raised
    THEN Slept(log_event([Caught(t) EXCEPT !.ret = FALSE], "error",
                         "Final update attempt exception"),
               RETRY_PAUSE_MS)
    ELSE t

\* Lines 664-686: one attempt of the final update.  An exception of the
\* except clause itself leaves main.
FinalAttempt ==
    /\ script = DEV_SCRIPT
    /\ pc = "final"
    /\ streaming_text # <<>>
    /\ attempt < FINAL_ATTEMPTS
    /\ \E oks \in Outcomes(2) :
         \E r \in {AttemptExcept(AttemptTried(
                      update_stream_if_needed(St("final", oks, <<0>>), TRUE)))} :
            /\ Commit(r)
            /\ raised' = r.raised
            /\ final_update_success' = IF ~r.raised /\ r.ret THEN TRUE
                                       ELSE final_update_success
            /\ attempt' = attempt + 1
            /\ pc' = IF r.raised THEN "cleanup" ELSE AfterAttempt(r.ret, attempt + 1)
    /\ UNCHANGED <<reactions, temp_dir, restarted, process_log, eof, first_line, nlines,
                   returncode>>

\* The fallback step without its message
FallbackSkipped ==
    /\ script = DEV_SCRIPT
    /\ pc = "fallback"
    /\ pc' = "summary"
    /\ UNCHANGED <<control_but_pc, locals>>

\* The fallback step that takes the message for sent whatever send_slack returns
FallbackTakenForSent ==
    /\ script = DEV_SCRIPT
    /\ pc = "fallback"
    /\ \E oks \in Outcomes(1) :
         \E s2 \in {send_slack(log_event(St("fallback", oks, <<>>), "error",
                                         "All final update attempts failed - sending fallback message"),
                               FallbackText(streaming_text), PlainMeta("fallback"))} :
            Commit(log_event(s2, "info", "Fallback message sent successfully"))
    /\ pc' = "summary"
    /\ UNCHANGED control_but_pc

\* Lines 697-700: what send_slack returned for the fallback message is logged
FallbackLogged(s2) ==
    IF s2.raised THEN s2
    ELSE IF s2.ret # None THEN log_event(s2, "info", "Fallback message sent successfully")
    ELSE log_event(s2, "error", "Fallback message also failed!")

\* Lines 688-700: the fallback message.  No except clause covers it: an
\* exception of a print or of a log record leaves main.
Fallback ==
    /\ script = DEV_SCRIPT
    /\ pc = "fallback"
    /\ \E oks \in Outcomes(1), excs \in Excs(1) :
         \E r \in {FallbackLogged(
                      send_slack(log_event([St("fallback", oks, <<>>) EXCEPT !.excs = excs],
                                           "error",
                                           "All final update attempts failed - sending fallback message"),
                                 FallbackText(streaming_text), PlainMeta("fallback")))} :
            /\ Commit(r)
            /\ raised' = r.raised
            /\ pc' = IF r.raised THEN "cleanup" ELSE "summary"
    /\ UNCHANGED <<reactions, temp_dir, restarted, process_log, eof, first_line, nlines,
                   returncode, attempt, final_update_success>>

\* Lines 704-727: the summary message
SummarySent(st) ==
    IF SummaryParts(st) # <<>>
    THEN post_slack(st, Enc(DONE_PREFIX \o Join(SummaryParts(st), COMMA_SPACE)),
                    PlainMeta("summary"))
    ELSE st

\* Lines 729-746: the stats message
StatsSent(st) ==
    IF st.raised THEN st
    ELSE IF StatsRaise(st.result_stats) THEN [st EXCEPT !.raised = TRUE]
    ELSE IF StatsParts(st) # <<>> THEN post_slack(st, StatsParts(st), PlainMeta("stats"))
    ELSE st

\* Lines 756-758: the except clause of the summary prints the exception and
\* logs it
SummaryExcept(st) ==
    IF st.raised THEN log_event(print_stderr(Caught(st)), "error", "Summary/stats error")
    ELSE st

\* Lines 702-758: the summary and the stats messages, and the record of the
\* session's completion; an exception skips what is left of them.  An
\* exception of the except clause itself leaves main.
Summary(answers) ==
    /\ script = DEV_SCRIPT
    /\ pc = "summary"
    /\ \E acks \in [1..2 -> answers], excs \in Excs(2) :
         \E r \in {SummaryExcept(
                      log_event(StatsSent(SummarySent([St("summary", <<>>, <<>>)
                                                         EXCEPT !.acks = acks, !.excs = excs])),
                                "info", "Session completed"))} :
            /\ Commit(r)
            /\ raised' = r.raised
            /\ pc' = IF r.raised THEN "cleanup" ELSE "outcome"
    /\ UNCHANGED <<reactions, temp_dir, restarted, process_log, eof, first_line, nlines,
                   returncode, attempt, final_update_success>>

\* error_lines[0][:200]
FIRST_ERROR_MAX == 200

\* Lines 772-785: the exit code and the captured lines are printed, and the
\* error message is sent and logged
ErrorReported(st) ==
    IF st.error_lines # <<>>
    THEN log_event(post_slack(print_stderr(print_stderr(st)),
                              Enc(ERROR_PREFIX \o Take(st.error_lines[1], FIRST_ERROR_MAX)),
                              PlainMeta("error")),
                   "error", "Session failed")
    ELSE log_event(post_slack(print_stderr(st), Enc(ERROR_GENERIC), PlainMeta("error")),
                   "error", "Session failed: unknown error")

\* Lines 763-792, before the reactions are changed: the message of the
\* outcome; st.ret becomes the reaction that marks it.  send_result tells
\* that the text of the result is to be sent.
Classified(st, send_result) ==
    IF st.streaming_text # <<>> \/ st.final_result # <<>>
    THEN [(IF send_result THEN post_slack(st, st.final_result, PlainMeta("result")) ELSE st)
             EXCEPT !.ret = SUCCESS_EMOJI]
    ELSE IF returncode # 0 THEN [ErrorReported(st) EXCEPT !.ret = ERROR_EMOJI]
    ELSE [st EXCEPT !.ret = SUCCESS_EMOJI]

\* An outcome that sends the result text whenever there is one
OutcomeResultAlways(answers) ==
    /\ script = DEV_SCRIPT
    /\ pc = "outcome"
    /\ \E acks \in [1..1 -> answers], excs \in Excs(1), fault \in ReactionFaults :
         \E r \in {Classified([St("outcome", <<>>, <<>>) EXCEPT !.acks = acks, !.excs = excs],
                               final_result # <<>>)} :
            /\ Commit(r)
            /\ raised' = (r.raised \/ fault # "none")
            /\ reactions' = IF r.raised THEN reactions ELSE Swapped(reactions, r.ret, fault)
    /\ pc' = "cleanup"
    /\ UNCHANGED <<temp_dir, restarted, process_log, eof, first_line, nlines, returncode,
                   attempt, final_update_success>>

\* Lines 760-792: the result message, the error message and the final
\* reaction.  No except clause covers them: an exception of a print or of a
\* log record leaves main with the processing reaction in place, and one of
\* a reaction request leaves it without the final reaction.
Outcome(answers) ==
    /\ script = DEV_SCRIPT
    /\ pc = "outcome"
    /\ \E acks \in [1..1 -> answers], excs \in Excs(1), fault \in ReactionFaults :
         \E r \in {Classified([St("outcome", <<>>, <<>>) EXCEPT !.acks = acks, !.excs = excs],
                               streaming_text = <<>> /\ final_result # <<>>)} :
            /\ Commit(r)
            /\ raised' = (r.raised \/ fault # "none")
            /\ reactions' = IF r.raised THEN reactions ELSE Swapped(reactions, r.ret, fault)
    /\ pc' = "cleanup"
    /\ UNCHANGED <<temp_dir, restarted, process_log, eof, first_line, nlines, returncode,
                   attempt, final_update_success>>

\* The directory removed only when main returns without an exception
CleanupOnReturn ==
    /\ script = DEV_SCRIPT
    /\ pc = "cleanup"
    /\ temp_dir' = raised
    /\ pc' = "done"
    /\ UNCHANGED <<raised, reactions, restarted, process_log, eof, first_line, nlines, returncode,
                   attempt, final_update_success, locals>>

\* Lines 794-802: the finally clause removes the temporary directory
\* (temp_dir = FALSE: shutil.rmtree was called).  Its failure is only
\* printed, and where sys.stderr is closed that print raises.
Cleanup ==
    /\ script = DEV_SCRIPT
    /\ pc = "cleanup"
    /\ temp_dir' = FALSE
    /\ \E removed \in (IF stderr THEN {TRUE} ELSE BOOLEAN) : raised' = (raised \/ ~removed)
    /\ pc' = "done"
    /\ UNCHANGED <<reactions, restarted, process_log, eof, first_line, nlines, returncode,
                   attempt, final_update_success, locals>>


(***************************************************************************)
(* Inputs: the lines the event source can emit.                            *)
(***************************************************************************)
HELLO ==
    <<"H", "e", "l", "l", "o", " ">>
WORLD ==
    <<"w", "o", "r", "l", "d", ",", " ", "t", "h", "i", "s", " ", "i", "s", " ", "a", " ", "l", "o", "n", "g", "e", "r", " ", "r", "e", "s", "p", "o", "n", "s", "e", ".">>
A_PY ==
    <<"a", ".", "p", "y">>
SRC_A_PY ==
    <<"s", "r", "c", "/", "a", ".", "p", "y">>
LIB_A_PY ==
    <<"l", "i", "b", "/", "a", ".", "p", "y">>
B_PY ==
    <<"b", ".", "p", "y">>
MAKE_TEST ==
    <<"m", "a", "k", "e", " ", "t", "e", "s", "t">>
LS_LA ==
    <<"l", "s", " ", "-", "l", "a">>
LS ==
    <<"l", "s">>
STAR_PY ==
    <<"*", ".", "p", "y">>
STAR_MD ==
    <<"*", ".", "m", "d">>
TODO ==
    <<"T", "O", "D", "O">>
URL_A ==
    <<"h", "t", "t", "p", "s", ":", "/", "/", "e", "x", "a", "m", "p", "l", "e", ".", "c", "o", "m", "/", "a">>
URL_B ==
    <<"h", "t", "t", "p", "s", ":", "/", "/", "e", "x", "a", "m", "p", "l", "e", ".", "c", "o", "m", "/", "b">>
URL_BAD ==
    <<"e", "x", "a", "m", "p", "l", "e", ".", "c", "o", "m", "/", "a">>
QUERY ==
    <<"t", "l", "a", "+", " ", "s", "e", "q", "u", "e", "n", "c", "e", "s">>
DESCR ==
    <<"r", "e", "v", "i", "e", "w", " ", "c", "o", "d", "e">>
MCP_GH_CREATE ==
    <<"m", "c", "p", "_", "_", "g", "i", "t", "h", "u", "b", "_", "_", "c", "r", "e", "a", "t", "e", "_", "i", "s", "s", "u", "e">>
MCP_GH_LIST ==
    <<"m", "c", "p", "_", "_", "g", "i", "t", "h", "u", "b", "_", "_", "l", "i", "s", "t", "_", "i", "s", "s", "u", "e", "s">>
MCP_SHORT ==
    <<"m", "c", "p", "_", "_", "x">>
ERR_LINE ==
    <<"E", "r", "r", "o", "r", ":", " ", "b", "o", "o", "m", "\n">>
IN_USE_LINE ==
    <<"E", "r", "r", "o", "r", ":", " ", "S", "e", "s", "s", "i", "o", "n", " ", "I", "D", " ", "i", "s", " ", "a", "l", "r", "e", "a", "d", "y", " ", "i", "n", " ", "u", "s", "e", "\n">>
BLANK_LINE ==
    <<" ", "", "\n">>
A_PNG ==
    <<"a", ".", "p", "n", "g">>
BIG_PNG ==
    <<"b", "i", "g", ".", "p", "n", "g">>
REPORT ==
    <<"r", "e", "p", "o", "r", "t">>
NOTES_TXT ==
    <<"n", "o", "t", "e", "s", ".", "t", "x", "t">>
MIME_PNG ==
    <<"i", "m", "a", "g", "e", "/", "p", "n", "g">>
MIME_PDF ==
    <<"a", "p", "p", "l", "i", "c", "a", "t", "i", "o", "n", "/", "p", "d", "f">>
MIME_TEXT ==
    <<"t", "e", "x", "t", "/", "p", "l", "a", "i", "n">>
ECHO_IN_USE ==
    <<"e", "c", "h", "o", " ", "a", "l", "r", "e", "a", "d", "y", " ", "i", "n", " ", "u", "s", "e">>
ANSWER ==
    <<"D", "o", "n", "e", ".">>

\* A chunk long enough to be flushed on its own
LONG_CHUNK_LEN == 60
LongChunk == <<Run("x", LONG_CHUNK_LEN - 1), Run(".", 1)>>

\* Chunks longer than a message.  BigNewline exceeds the maximum by
\* OVER_MAX with its only newline NEWLINE_BEFORE_CUTOFF before the safety
\* cutoff; BigSpace has a space, and no newline, inside the shorter
\* lookback window.
OVER_MAX == 300
NEWLINE_BEFORE_CUTOFF == 250
SPACE_BEFORE_CUTOFF == 40
BigNewline ==
    << Run("a", SAFE_CUTOFF - NEWLINE_BEFORE_CUTOFF), Run("\n", 1),
       Run("b", SLACK_MAX_MESSAGE_LENGTH + OVER_MAX - (SAFE_CUTOFF - NEWLINE_BEFORE_CUTOFF) - 1) >>
BigSpace ==
    << Run("a", SAFE_CUTOFF - SPACE_BEFORE_CUTOFF), Run(" ", 1),
       Run("b", SLACK_MAX_MESSAGE_LENGTH + OVER_MAX - (SAFE_CUTOFF - SPACE_BEFORE_CUTOFF) - 1) >>

\* A chunk without newline or space that is still longer than a message
\* after four splits
HUGE_LEN == 200000
HugePlain == <<Run("a", HUGE_LEN)>>

RawLine(raw) == [kind |-> "raw", raw |-> raw]
ScalarLine == [kind |-> "scalar"]
OtherLine == [kind |-> "other"]
AssistantLine(content) == [kind |-> "assistant", content |-> content]
ResultLine(result, duration_ms, cost, usage) ==
    [kind |-> "result", result |-> result, duration_ms |-> duration_ms, cost |-> cost,
     usage |-> usage]

TextItem(text) == [type |-> "text", text |-> text]
ToolItem(name, input) == [type |-> "tool_use", name |-> name, input |-> input]
ScalarItem == [type |-> "scalar"]

\* A record written with its letters as \u escapes: it parses to the same
\* data, and its line holds none of the words of its strings
Escaped(line) ==
    [key \in DOMAIN line \cup {"escaped"} |-> IF key = "escaped" THEN TRUE ELSE line[key]]

\* A record, or a JSON string, that holds the string text where the
\* classifier does not look
Carrying(line, text) ==
    [key \in DOMAIN line \cup {"extra"} |-> IF key = "extra" THEN text ELSE line[key]]

\* An input mapping without any of the keys the reporter looks up
NoParams == [other |-> <<>>]

SomeUsage == Usage(Num(10), Num(5), Num(0), Num(7))

\* Short text and the tools reported inside the streamed text
Lines ==
    { AssistantLine(<<TextItem(Enc(HELLO))>>),
      AssistantLine(<<TextItem(Enc(WORLD))>>),
      AssistantLine(<<TextItem(LongChunk)>>),
      AssistantLine(<<TextItem(Enc(HELLO)), ToolItem(N_Edit, [file_path |-> SRC_A_PY])>>),
      AssistantLine(<<ToolItem(N_Bash, [command |-> MAKE_TEST])>>),
      RawLine(IN_USE_LINE) }

\* Text that does not fit one message
LongLines ==
    { AssistantLine(<<TextItem(LongChunk)>>),
      AssistantLine(<<TextItem(BigNewline)>>),
      AssistantLine(<<TextItem(BigSpace)>>),
      AssistantLine(<<TextItem(HugePlain)>>),
      AssistantLine(<<ToolItem(N_Write, [file_path |-> B_PY])>>) }

\* Tool invocations of every kind
ToolLines ==
    { AssistantLine(<<ToolItem(N_Edit, [file_path |-> SRC_A_PY])>>),
      AssistantLine(<<ToolItem(N_Edit, [file_path |-> LIB_A_PY])>>),
      AssistantLine(<<ToolItem(N_Edit, NoParams)>>),
      AssistantLine(<<ToolItem(N_Write, [file_path |-> A_PY])>>),
      AssistantLine(<<ToolItem(N_Write, [file_path |-> B_PY])>>),
      AssistantLine(<<ToolItem(N_Read, [file_path |-> A_PY])>>),
      AssistantLine(<<ToolItem(N_Bash, [command |-> MAKE_TEST])>>),
      AssistantLine(<<ToolItem(N_Bash, [command |-> LS_LA])>>),
      AssistantLine(<<ToolItem(N_Bash, [command |-> LS])>>),
      AssistantLine(<<ToolItem(N_Glob, [pattern |-> STAR_PY])>>),
      AssistantLine(<<ToolItem(N_Glob, [pattern |-> STAR_MD])>>),
      AssistantLine(<<ToolItem(N_Grep, [pattern |-> TODO])>>),
      AssistantLine(<<ToolItem(N_WebFetch, [url |-> URL_A])>>),
      AssistantLine(<<ToolItem(N_WebFetch, [url |-> URL_B])>>),
      AssistantLine(<<ToolItem(N_WebFetch, [url |-> URL_BAD])>>),
      AssistantLine(<<ToolItem(N_WebSearch, [query |-> QUERY])>>),
      AssistantLine(<<ToolItem(N_Task, [description |-> DESCR])>>),
      AssistantLine(<<ToolItem(N_Task, NoParams)>>),
      AssistantLine(<<ToolItem(MCP_GH_CREATE, NoParams)>>),
      AssistantLine(<<ToolItem(MCP_GH_LIST, NoParams)>>),
      AssistantLine(<<ToolItem(MCP_SHORT, NoParams)>>) }

\* Lines that are not well-formed event records, among records that are
OddLines ==
    { RawLine(ERR_LINE), RawLine(BLANK_LINE), ScalarLine, OtherLine,
      AssistantLine(<<TextItem(Enc(HELLO)), ScalarItem>>),
      AssistantLine(<<TextItem(Enc(WORLD))>>),
      AssistantLine(<<ToolItem(N_Read, [file_path |-> A_PY])>>),
      ResultLine(Enc(ANSWER), Num(1200), Num(3), SomeUsage),
      ResultLine(<<>>, Num(0), Num(0), NoUsage) }

\* What main is started with: the attachments with what their downloads
\* return, and the message
Arrival(files, downloads) == [files |-> files, downloads |-> downloads]
Messages == {<<>>, HELLO}

\* No attachment, and an attachment list with an element that is not an object
PlainArrivals == {Arrival(<<>>, <<>>), Arrival(<<ScalarItem>>, <<"ok">>)}

\* Attachments of each kind: an image by its name, a PDF by its type, an
\* image over the limit by its metadata, files that are not supported or
\* have no address, and more files than are accepted
ImageFile == [url_private |-> URL_A, name |-> A_PNG, mimetype |-> MIME_PNG, size |-> 2048]
PdfFile == [url_private_download |-> URL_B, name |-> REPORT, mimetype |-> MIME_PDF]
BigFile == [url_private |-> URL_A, name |-> BIG_PNG, mimetype |-> MIME_PNG,
            size |-> MAX_FILE_SIZE_BYTES + 512 * 1024]
TextFile == [url_private |-> URL_A, name |-> NOTES_TXT, mimetype |-> MIME_TEXT]
NoUrlFile == [name |-> A_PNG, mimetype |-> MIME_PNG]

FileArrivals ==
    PlainArrivals
    \cup {Arrival(<<ImageFile>>, <<d>>) : d \in DownloadResults}
    \cup {Arrival(<<BigFile, PdfFile>>, <<"ok", "ok">>),
          Arrival(<<TextFile, NoUrlFile>>, <<"ok", "ok">>)}
TooManyFiles ==
    Arrival(<<ImageFile, PdfFile, ImageFile, PdfFile, ImageFile, PdfFile>>,
            <<"ok", "ok", "ok", "download_error", "exceeds_size_limit", "ok">>)

(***************************************************************************)
(* Specifications: one run of main, for each input alphabet.               *)
(***************************************************************************)
Arrive ==
    \E a \in PlainArrivals, message \in Messages :
        Prepare(a.files, a.downloads, message, BOOLEAN)

Next ==
    \/ Arrive
    \/ Spawn \/ (\E line \in Lines : PeekLine(line)) \/ PeekEnd \/ PeekRaises
    \/ FirstLine(Accepting) \/ (\E line \in Lines : ReadLine(line, MaxLines, Accepting))
    \/ EndOfOutput \/ Wait \/ FinalSkip \/ FinalAttempt \/ Fallback
    \/ Summary(Accepting) \/ Outcome(Accepting) \/ Cleanup

Spec == Init /\ [][Next]_vars

\* The positions of main from the final update to the outcome, and all its
\* positions
FinalizationPcs == {"final", "fallback", "summary", "outcome"}
Positions ==
    {"prepare", "spawn", "peek", "first", "loop", "wait", "cleanup", "done"}
    \cup FinalizationPcs

\* main takes its next step in the finalization.  main is one thread, and
\* each of these steps ends: a sink call returns within its timeout, the
\* pause between attempts is one second, and nothing in them waits for the
\* process.  At these positions the steps of Next are FinalSkip,
\* FinalAttempt, Fallback, Summary and Outcome, one of which is enabled,
\* and each of them changes pc or attempt.
FinalizationStep ==
    /\ pc \in FinalizationPcs
    /\ pc' \in Positions
    /\ attempt' \in 0..FINAL_ATTEMPTS

\* Spec where main, once in the finalization, goes on
SpecFair == Spec /\ WF_<<pc, attempt>>(FinalizationStep)


NextLong ==
    \/ Arrive
    \/ Spawn \/ (\E line \in LongLines : PeekLine(line)) \/ PeekEnd \/ PeekRaises
    \/ FirstLine(Accepting) \/ (\E line \in LongLines : ReadLine(line, MaxLongLines, Accepting))
    \/ EndOfOutput \/ Wait \/ FinalSkip \/ FinalAttempt \/ Fallback
    \/ Summary(Accepting) \/ Outcome(Accepting) \/ Cleanup

SpecLong == Init /\ [][NextLong]_vars


NextTools ==
    \/ Arrive
    \/ Spawn \/ (\E line \in ToolLines : PeekLine(line)) \/ PeekEnd \/ PeekRaises
    \/ FirstLine(BOOLEAN) \/ (\E line \in ToolLines : ReadLine(line, MaxToolLines, BOOLEAN))
    \/ EndOfOutput \/ Wait \/ FinalSkip \/ FinalAttempt \/ Fallback
    \/ Summary(BOOLEAN) \/ Outcome(BOOLEAN) \/ Cleanup

SpecTools == Init /\ [][NextTools]_vars


NextOdd ==
    \/ Arrive
    \/ Spawn \/ (\E line \in OddLines : PeekLine(line)) \/ PeekEnd \/ PeekRaises
    \/ FirstLine(BOOLEAN) \/ (\E line \in OddLines : ReadLine(line, MaxOddLines, BOOLEAN))
    \/ ReadRaises \/ EndOfOutput \/ Wait \/ FinalSkip \/ FinalAttempt \/ Fallback
    \/ Summary(BOOLEAN) \/ Outcome(BOOLEAN) \/ Cleanup

SpecOdd == Init /\ [][NextOdd]_vars

\* One invocation of each tool that has a counter, and one that lacks the
\* parameter it is reported by
CountLines ==
    { AssistantLine(<<ToolItem(N_Read, [file_path |-> A_PY])>>),
      AssistantLine(<<ToolItem(N_Edit, [file_path |-> SRC_A_PY])>>),
      AssistantLine(<<ToolItem(N_Edit, NoParams)>>),
      AssistantLine(<<ToolItem(N_Write, [file_path |-> B_PY])>>),
      AssistantLine(<<ToolItem(N_Bash, [command |-> MAKE_TEST])>>),
      AssistantLine(<<ToolItem(N_Glob, [pattern |-> STAR_PY])>>),
      AssistantLine(<<ToolItem(N_Grep, [pattern |-> TODO])>>),
      AssistantLine(<<ToolItem(N_WebFetch, [url |-> URL_A])>>),
      AssistantLine(<<ToolItem(N_WebSearch, [query |-> QUERY])>>),
      AssistantLine(<<ToolItem(N_Task, [description |-> DESCR])>>),
      AssistantLine(<<ToolItem(MCP_GH_CREATE, NoParams)>>) }

NextCount ==
    \/ Arrive
    \/ Spawn \/ (\E line \in CountLines : PeekLine(line)) \/ PeekEnd \/ PeekRaises
    \/ FirstLine(Accepting) \/ (\E line \in CountLines : ReadLine(line, MaxCountLines, Accepting))
    \/ EndOfOutput \/ Wait \/ FinalSkip \/ FinalAttempt \/ Fallback
    \/ Summary(Accepting) \/ Outcome(Accepting) \/ Cleanup

SpecCount == Init /\ [][NextCount]_vars

\* Output that is mostly not JSON: an error line, a blank line, and a text
\* delta
RawLines ==
    { RawLine(ERR_LINE), RawLine(BLANK_LINE), AssistantLine(<<TextItem(Enc(WORLD))>>) }

NextRaw ==
    \/ Arrive
    \/ Spawn \/ (\E line \in RawLines : PeekLine(line)) \/ PeekEnd \/ PeekRaises
    \/ FirstLine(Accepting) \/ (\E line \in RawLines : ReadLine(line, MaxRawLines, Accepting))
    \/ EndOfOutput \/ Wait \/ FinalSkip \/ FinalAttempt \/ Fallback
    \/ Summary(Accepting) \/ Outcome(Accepting) \/ Cleanup

SpecRaw == Init /\ [][NextRaw]_vars

\* How a run starts.  The first line may hold the session diagnostic: as a
\* line that is not JSON, in a parameter of a tool, in a field that the
\* classifier does not read, in the usage of a result that is a string, or
\* in a text whose letters are escaped
StartLines ==
    { RawLine(IN_USE_LINE),
      ResultLine(Enc(ANSWER), Num(0), Num(0), UsageStr(ALREADY_IN_USE)),
      AssistantLine(<<ToolItem(N_Bash, [command |-> ECHO_IN_USE])>>),
      Carrying(OtherLine, ALREADY_IN_USE),
      Escaped(AssistantLine(<<TextItem(Enc(ALREADY_IN_USE))>>)),
      AssistantLine(<<TextItem(Enc(HELLO))>>),
      ResultLine(Enc(ANSWER), Num(1200), Num(3), SomeUsage) }

NextStart ==
    \/ (\E a \in FileArrivals, message \in Messages :
           Prepare(a.files, a.downloads, message, BOOLEAN))
    \/ (\E message \in Messages :
           Prepare(TooManyFiles.files, TooManyFiles.downloads, message, Accepting))
    \/ Spawn \/ (\E line \in StartLines : PeekLine(line)) \/ PeekEnd \/ PeekRaises
    \/ FirstLine(BOOLEAN) \/ (\E line \in StartLines : ReadLine(line, MaxStartLines, BOOLEAN))
    \/ ReadRaises \/ EndOfOutput \/ Wait \/ FinalSkip \/ FinalAttempt \/ Fallback
    \/ Summary(BOOLEAN) \/ Outcome(BOOLEAN) \/ Cleanup

\* Runs in any environment.  The output has a text delta, a tool reported
\* inside the streamed text, a line that is not JSON, and a result record
\* whose duration is a string
N_1200 == <<"1", "2", "0", "0">>
FaultLines ==
    { AssistantLine(<<TextItem(Enc(HELLO))>>),
      AssistantLine(<<ToolItem(N_Edit, [file_path |-> SRC_A_PY])>>),
      RawLine(ERR_LINE),
      ResultLine(<<>>, Str(N_1200), Num(0), NoUsage) }

\* An image whose download succeeds or fails
FaultArrivals ==
    PlainArrivals \cup {Arrival(<<ImageFile>>, <<d>>) : d \in {"ok", "download_error"}}

NextFaults ==
    \/ (\E a \in FaultArrivals, message \in Messages :
           Prepare(a.files, a.downloads, message, BOOLEAN))
    \/ Spawn \/ (\E line \in FaultLines : PeekLine(line)) \/ PeekEnd \/ PeekRaises
    \/ FirstLine(BOOLEAN) \/ (\E line \in FaultLines : ReadLine(line, MaxFaultLines, BOOLEAN))
    \/ ReadRaises \/ EndOfOutput \/ Wait \/ FinalSkip \/ FinalAttempt \/ Fallback
    \/ Summary(BOOLEAN) \/ Outcome(BOOLEAN) \/ Cleanup

SpecFaults == InitFaults /\ [][NextFaults]_vars

\* Result records whose figures are numbers, or strings where numbers are
\* expected, after a tool that the summary counts.  Two of them have input
\* counts whose sum is 0 though a count is not, one with an output count
\* that is an empty string.
StatsLines ==
    { AssistantLine(<<ToolItem(N_Edit, [file_path |-> SRC_A_PY])>>),
      ResultLine(Enc(ANSWER), Num(1200), Num(3), SomeUsage),
      ResultLine(<<>>, Str(N_1200), Num(0), NoUsage),
      ResultLine(<<>>, Str(<<>>), Str(N_1200), NoUsage),
      ResultLine(<<>>, Num(0), Num(0), Usage(Str(N_1200), Num(5), Num(0), Num(7))),
      ResultLine(<<>>, Num(0), Num(0), Usage(Str(<<>>), Str(<<>>), Str(<<>>), Num(0))),
      ResultLine(<<>>, Num(0), Num(0), Usage(Num(0), Num(0), Num(0), Str(N_1200))),
      ResultLine(<<>>, Num(1200), Num(0), Usage(Num(5), Num(-5), Num(0), Str(<<>>))),
      ResultLine(<<>>, Num(0), Num(0), Usage(Num(-2), Num(1), Num(1), Num(0))),
      ResultLine(<<>>, Num(0), Num(0), UsageStr(N_1200)) }

NextStats ==
    \/ Arrive
    \/ Spawn \/ (\E line \in StatsLines : PeekLine(line)) \/ PeekEnd \/ PeekRaises
    \/ FirstLine(BOOLEAN) \/ (\E line \in StatsLines : ReadLine(line, MaxStatsLines, BOOLEAN))
    \/ EndOfOutput \/ Wait \/ FinalSkip \/ FinalAttempt \/ Fallback
    \/ Summary(BOOLEAN) \/ Outcome(BOOLEAN) \/ Cleanup

SpecStats == Init /\ [][NextStats]_vars

\* SpecStats where main, once in the finalization, goes on
SpecStatsFair == SpecStats /\ WF_<<pc, attempt>>(FinalizationStep)

(***************************************************************************)
(* claude-streamer.py: main without the streaming aggregator.  It reports  *)
(* tools with messages of their own, and its finally clause removes the    *)
(* thinking reaction before it removes the temporary directory.  The       *)
(* positions of its main are "prepare" (lines 121-192), "first" and "loop" *)
(* (lines 256-261), "wait" (lines 263-291), "cleanup" (the finally clause) *)
(* and "done".  process_log also records remove_reaction and rmtree.       *)
(***************************************************************************)
THINKING_EMOJI == "thinking_face"

NO_CONVERSATION_LINE ==
    <<"N", "o", " ", "c", "o", "n", "v", "e", "r", "s", "a", "t", "i", "o", "n", " ", "f", "o", "u", "n", "d", " ", "w", "i", "t", "h", " ", "s", "e", "s", "s", "i", "o", "n", " ", "I", "D", "\n">>

NO_CONVERSATION_FOUND ==
    <<"N", "o", " ", "c", "o", "n", "v", "e", "r", "s", "a", "t", "i", "o", "n", " ", "f", "o", "u", "n", "d">>
ECHO_NO_CONVERSATION ==
    <<"e", "c", "h", "o", " ", "N", "o", " ", "c", "o", "n", "v", "e", "r", "s", "a", "t", "i", "o", "n", " ", "f", "o", "u", "n", "d">>

\* "No conversation found" in first_line
HasNoConversation(line) == LineHas(line, NO_CONVERSATION_FOUND)

\* Output of the process: lines that are not JSON (one of them the session
\* diagnostic), a line that is JSON but not an object, tool invocations (one
\* with the words of the diagnostic in its command), a text of these words
\* whose letters are escaped, a content item that is not an object, a
\* result, and a result whose duration is a string of the words of the
\* diagnostic
StreamerLines ==
    { RawLine(ERR_LINE), RawLine(NO_CONVERSATION_LINE), ScalarLine,
      ResultLine(Enc(ANSWER), Str(NO_CONVERSATION_FOUND), Num(0), NoUsage),
      AssistantLine(<<ToolItem(N_Bash, [command |-> ECHO_NO_CONVERSATION])>>),
      Escaped(AssistantLine(<<TextItem(Enc(NO_CONVERSATION_FOUND))>>)),
      AssistantLine(<<ToolItem(N_Edit, [file_path |-> SRC_A_PY])>>),
      AssistantLine(<<ToolItem(N_Read, [file_path |-> A_PY])>>),
      AssistantLine(<<ToolItem(N_Bash, [command |-> MAKE_TEST])>>),
      AssistantLine(<<TextItem(Enc(HELLO)), ScalarItem>>),
      ResultLine(Enc(ANSWER), Num(1200), Num(3), SomeUsage) }

\* Attachments: none, an image whose download succeeds or fails, and a list
\* whose second element is not an object
StreamerArrivals ==
    {Arrival(<<>>, <<>>), Arrival(<<ImageFile>>, <<"ok">>),
     Arrival(<<ImageFile>>, <<"download_error">>),
     Arrival(<<PdfFile, ScalarItem>>, <<"ok", "ok">>)}

\* process_line(line) of claude-streamer.py; st.raised tells that it raised
streamer_process_line(st, line) ==
    LET Report(s, tool_input, verb) ==
            LET file_path == Get(tool_input, "file_path", <<>>)
                filename == FileName(file_path)
            IN IF file_path # <<>> /\ filename \notin s.reported_files
               THEN post_slack(Notified([s EXCEPT !.reported_files = @ \cup {filename}]),
                               Enc(verb \o <<" ", BACKTICK>> \o filename \o BACKTICK_DOTS),
                               PlainMeta("notify"))
               ELSE s
        ReportRun(s, tool_input) ==
            LET cmd_str == Get(tool_input, "command", <<>>)
                display_cmd == Shorten(cmd_str, DISPLAY_CMD_MAX)
            IN IF IsReportedCommand(cmd_str)
               THEN post_slack(Notified([s EXCEPT !.commands = @ + 1]),
                               Enc(<<"R", "u", "n", "n", "i", "n", "g", " ", BACKTICK>>
                                   \o display_cmd \o BACKTICK_DOTS),
                               PlainMeta("notify"))
               ELSE s
        Item(s, item) ==
            IF s.raised THEN s
            ELSE IF item.type = "scalar" THEN [s EXCEPT !.raised = TRUE]
            ELSE IF item.type # "tool_use" THEN s
            ELSE LET s0 == [s EXCEPT !.tool_events =
                                        Append(@, [name |-> item.name, input |-> item.input])]
                 IN CASE item.name = N_Edit ->
                           Report([s0 EXCEPT !.edits = @ + 1], item.input,
                                  <<"E", "d", "i", "t", "i", "n", "g">>)
                      [] item.name = N_Write ->
                           Report([s0 EXCEPT !.writes = @ + 1], item.input,
                                  <<"C", "r", "e", "a", "t", "i", "n", "g">>)
                      [] item.name = N_Read -> [s0 EXCEPT !.reads = @ + 1]
                      [] item.name = N_Bash -> ReportRun(s0, item.input)
                      [] OTHER -> s0
        Items(content) ==
            LET after[i \in 0..Len(content)] ==
                    IF i = 0 THEN st ELSE Item(after[i - 1], content[i])
            IN after[Len(content)]
    IN CASE line.kind = "raw" ->
              LET stripped == Strip(line.raw)
              IN IF stripped = <<>> THEN st
                 ELSE [st EXCEPT !.error_lines = Append(@, stripped)]
         [] line.kind = "scalar" -> [st EXCEPT !.raised = TRUE]
         [] line.kind = "assistant" -> Items(line.content)
         [] line.kind = "result" -> [st EXCEPT !.final_result = line.result]
         [] OTHER -> st

\* Lines 102-119, which no try covers: the message is decoded, the thinking
\* reaction is added and the directory made, and main goes on to its guarded
\* section ("entered"); or the message argument is not base64 of UTF-8 text
\* and its decoding raises (line 102), before the reaction is asked for
\* ("no_reaction"); or tempfile.mkdtemp raises (line 118) and main is left
\* with the reaction on the message ("no_directory").  Where sys.stderr is
\* closed a print raises as well: the one of add_reaction (line 53, its
\* request having raised), which leaves main as "no_directory" does, and
\* the one of line 111 (the files argument cannot be parsed), which leaves
\* main as "no_reaction" does.  The script has no logger.
InitStreamer ==
    /\ script = STREAMER_SCRIPT
    /\ stderr \in BOOLEAN /\ handler = FALSE
    /\ \E outcome \in {"entered", "no_reaction", "no_directory"} :
          /\ pc = (IF outcome = "entered" THEN "prepare" ELSE "done")
          /\ raised = (outcome # "entered")
          /\ temp_dir = (outcome = "entered")
          /\ reactions = (IF outcome = "no_reaction" THEN {} ELSE {THINKING_EMOJI})
    /\ restarted = FALSE /\ process_log = <<>>
    /\ eof = FALSE /\ first_line = NoLine /\ nlines = 0
    /\ returncode = 0 /\ attempt = 0 /\ final_update_success = FALSE
    /\ edits = 0 /\ writes = 0 /\ reads = 0 /\ commands = 0 /\ globs = 0 /\ greps = 0
    /\ web_fetches = 0 /\ web_searches = 0 /\ tasks = 0 /\ mcp_calls = 0
    /\ final_result = <<>>
    /\ result_stats = [duration_ms |-> Num(0), cost |-> Num(0), usage |-> NoUsage]
    /\ reported_files = {} /\ reported_actions = {} /\ error_lines = <<>>
    /\ streaming_text = <<>> /\ streaming_msg_ts = None
    /\ last_stream_update = 0 /\ last_streamed_len = 0
    /\ continuation_count = 0 /\ all_message_ts_list = <<>>
    /\ now = StartMs /\ next_ts = 1 /\ sink_log = <<>> /\ log_events = <<>>
    /\ splits = <<>> /\ tool_events = <<>> /\ notifications = <<>>
    /\ text_deltas = 0

\* Lines 121-192: the attachments are downloaded in turn (an element that is
\* not an object makes the loop raise where it stands, and a downloaded file
\* is announced), the process is started with --resume, and its first line
\* is read; when that line says that no conversation was found the process
\* is killed and started again with --session-id.  Popen raises when the
\* program cannot be started, and readline when the output cannot be
\* decoded.  line is the first line of the output, NoLine when there is none.
\* A download that fails is printed by download_slack_file (lines 80, 82).
StreamerStart(files, downloads, line) ==
    /\ script = STREAMER_SCRIPT
    /\ pc = "prepare"
    /\ \E acks \in Outcomes(Len(files)), excs \in Excs(Len(files)), started \in BOOLEAN,
          readable \in BOOLEAN, again \in BOOLEAN :
         LET One(s, i) ==
                 IF s.raised THEN s
                 ELSE IF files[i] = [type |-> "scalar"] THEN [s EXCEPT !.raised = TRUE]
                 ELSE IF FileUrl(files[i]) = <<>> \/ FileType(files[i]) = <<>> THEN s
                 ELSE IF downloads[i] = "ok"
                 THEN post_slack(s, Enc(<<"D", "o", "w", "n", "l", "o", "a", "d", "e", "d", " ">> \o FileType(files[i]) \o <<":", " ", BACKTICK>>
                                        \o FileNameOf(files[i]) \o <<BACKTICK>>),
                                 PlainMeta("download"))
                 ELSE print_stderr(s)
             after[k \in 0..Len(files)] ==
                 IF k = 0 THEN [St("prepare", <<>>, <<>>) EXCEPT !.acks = acks, !.excs = excs]
                 ELSE One(after[k - 1], k)
         IN \E r \in {after[Len(files)]} :
              /\ Commit(r)
              /\ IF r.raised
                 THEN /\ raised' = TRUE /\ pc' = "cleanup"
                      /\ UNCHANGED <<restarted, process_log, eof, first_line, nlines>>
                 ELSE IF ~started \/ ~readable
                 THEN /\ raised' = TRUE /\ pc' = "cleanup"
                      /\ process_log' = IF started THEN <<Popen("--resume", TRUE), ReadError>>
                                        ELSE <<Popen("--resume", FALSE)>>
                      /\ UNCHANGED <<restarted, eof, first_line, nlines>>
                 ELSE IF HasNoConversation(line)
                 THEN /\ process_log' = <<Popen("--resume", TRUE), Readline(line), Kill, WaitFor,
                                          Popen("--session-id", again)>>
                      /\ restarted' = TRUE
                      /\ first_line' = IF again THEN NoLine ELSE line
                      /\ raised' = ~again
                      /\ pc' = IF again THEN "first" ELSE "cleanup"
                      /\ nlines' = nlines + 1
                      /\ UNCHANGED eof
                 ELSE /\ process_log' = <<Popen("--resume", TRUE), Readline(line)>>
                      /\ first_line' = line
                      /\ eof' = (line = NoLine)
                      /\ nlines' = IF line = NoLine THEN nlines ELSE nlines + 1
                      /\ pc' = "first"
                      /\ UNCHANGED <<raised, restarted>>
    /\ UNCHANGED <<reactions, temp_dir, returncode, attempt, final_update_success>>

\* Lines 256-261: the peeked line is processed, then the lines of the read
\* loop, one in each step; an exception of process_line, or of the reading
\* when the output cannot be decoded, leaves main
StreamerRead ==
    \/ /\ script = STREAMER_SCRIPT
       /\ pc = "first"
       /\ IF first_line = NoLine
          THEN /\ pc' = "loop"
               /\ UNCHANGED <<raised, process_log, locals>>
          ELSE \E acks \in Outcomes(AcksOf(first_line)), excs \in Excs(AcksOf(first_line)) :
                 \E r \in {streamer_process_line([St("loop", <<>>, <<>>)
                                                     EXCEPT !.acks = acks, !.excs = excs],
                                                  first_line)} :
                    /\ Commit(r)
                    /\ raised' = r.raised
                    /\ pc' = IF r.raised THEN "cleanup" ELSE "loop"
                    /\ process_log' = Append(process_log, ProcessLineCall(first_line))
       /\ UNCHANGED <<reactions, temp_dir, restarted, eof, first_line, nlines, returncode,
                      attempt, final_update_success>>
    \/ /\ script = STREAMER_SCRIPT
       /\ pc = "loop"
       /\ ~eof
       /\ nlines < MaxStreamerLines
       /\ \E line \in StreamerLines :
            \E acks \in Outcomes(AcksOf(line)), excs \in Excs(AcksOf(line)) :
               \E r \in {streamer_process_line([St("loop", <<>>, <<>>)
                                                   EXCEPT !.acks = acks, !.excs = excs],
                                                line)} :
                  /\ Commit(r)
                  /\ raised' = r.raised
                  /\ pc' = IF r.raised THEN "cleanup" ELSE "loop"
                  /\ process_log' = process_log \o <<Readline(line), ProcessLineCall(line)>>
       /\ nlines' = nlines + 1
       /\ UNCHANGED <<reactions, temp_dir, restarted, eof, first_line, returncode,
                      attempt, final_update_success>>
    \/ /\ script = STREAMER_SCRIPT
       /\ pc = "loop"
       /\ ~eof
       /\ process_log' = Append(process_log, ReadError)
       /\ raised' = TRUE
       /\ pc' = "cleanup"
       /\ UNCHANGED <<reactions, temp_dir, restarted, eof, first_line, nlines,
                      returncode, attempt, final_update_success, locals>>
    \/ /\ script = STREAMER_SCRIPT
       /\ pc = "loop"
       /\ eof' = TRUE
       /\ pc' = "wait"
       /\ UNCHANGED <<raised, reactions, temp_dir, restarted, process_log, first_line, nlines,
                      returncode, attempt, final_update_success, locals>>

\* Lines 263-291: process.wait(), the summary, and the result or the error
\* message, before which the exit code and the captured lines are printed
\* (lines 284, 287)
StreamerFinish ==
    /\ script = STREAMER_SCRIPT
    /\ pc = "wait"
    /\ \E rc \in ReturnCodes, acks \in Outcomes(2), excs \in Excs(2) :
         LET s0 == [St("outcome", <<>>, <<>>) EXCEPT !.acks = acks, !.excs = excs]
             summary_parts ==
                 Phrase(V_READ, reads, U_FILES) \o Phrase(V_EDITED, edits, U_FILES)
                 \o Phrase(V_CREATED, writes, U_FILES) \o Phrase(V_RAN, commands, U_COMMANDS)
             s1 == IF summary_parts # <<>>
                   THEN post_slack(s0, Enc(DONE_PREFIX \o Join(summary_parts, COMMA_SPACE)),
                                   PlainMeta("summary"))
                   ELSE s0
         IN /\ returncode' = rc
            /\ \E r \in {IF final_result # <<>>
                          THEN post_slack(s1, final_result, PlainMeta("result"))
                          ELSE IF rc # 0
                          THEN post_slack(print_stderr(s1),
                                          IF error_lines # <<>>
                                          THEN Enc(ERROR_PREFIX
                                                   \o Take(error_lines[1], FIRST_ERROR_MAX))
                                          ELSE Enc(ERROR_GENERIC),
                                          PlainMeta("error"))
                          ELSE s1} :
                  /\ Commit(r)
                  /\ raised' = r.raised
    /\ process_log' = Append(process_log, WaitFor)
    /\ pc' = "cleanup"
    /\ UNCHANGED <<reactions, temp_dir, restarted, eof, first_line, nlines,
                   attempt, final_update_success>>

\* The thinking reaction removed only when main returns without an exception
StreamerFinallyOnReturn ==
    /\ script = STREAMER_SCRIPT
    /\ pc = "cleanup"
    /\ reactions' = IF raised THEN reactions ELSE reactions \ {THINKING_EMOJI}
    /\ temp_dir' = FALSE
    /\ process_log' = process_log
                      \o (IF raised THEN <<>>
                          ELSE <<[op |-> "remove_reaction", emoji |-> THINKING_EMOJI]>>)
                      \o <<[op |-> "rmtree"]>>
    /\ pc' = "done"
    /\ UNCHANGED <<raised, restarted, eof, first_line, nlines, returncode,
                   attempt, final_update_success, locals>>

\* Lines 293-301: the finally clause removes the thinking reaction, then the
\* temporary directory.  A failure of the request of remove_reaction and a
\* failure of rmtree are only printed (lines 65 and 301), and where
\* sys.stderr is closed that print raises: the one of remove_reaction leaves
\* main before rmtree is called.
StreamerFinally ==
    /\ script = STREAMER_SCRIPT
    /\ pc = "cleanup"
    /\ reactions' = reactions \ {THINKING_EMOJI}
    /\ \E returned \in (IF stderr THEN {TRUE} ELSE BOOLEAN),
          removed \in (IF stderr THEN {TRUE} ELSE BOOLEAN) :
          /\ temp_dir' = (temp_dir /\ ~returned)
          /\ process_log' = process_log
                            \o <<[op |-> "remove_reaction", emoji |-> THINKING_EMOJI]>>
                            \o (IF returned THEN <<[op |-> "rmtree"]>> ELSE <<>>)
          /\ raised' = (raised \/ ~returned \/ ~removed)
    /\ pc' = "done"
    /\ UNCHANGED <<restarted, eof, first_line, nlines, returncode,
                   attempt, final_update_success, locals>>

NextStreamer ==
    \/ (\E a \in StreamerArrivals, line \in StreamerLines \cup {NoLine} :
           StreamerStart(a.files, a.downloads, line))
    \/ StreamerRead \/ StreamerFinish \/ StreamerFinally

SpecStreamer == InitStreamer /\ [][NextStreamer]_vars

(***************************************************************************)
(* Both scripts: a run is of one of them, from its start to its end, and   *)
(* every step of main is a step of the script that runs.                   *)
(***************************************************************************)
InitScripts == Init \/ InitStreamer

\* How a run of either script starts
NextStarts == NextStart \/ NextStreamer

SpecStarts == InitScripts /\ [][NextStarts]_vars

\* Runs of either script with invocations of every tool
NextReads == NextCount \/ NextStreamer

SpecReads == InitScripts /\ [][NextReads]_vars

(***************************************************************************)
(* Properties.                                                             *)
(***************************************************************************)
\* The calls of update_stream_if_needed that carry the current text
IsFlush(e) == e.kind = "stream"

\* The last flush before sink call i, 0 when there is none
LastFlushBefore(i) ==
    LET before == {j \in 1..(i - 1) : IsFlush(sink_log[j])}
    IN IF before = {} THEN 0 ELSE CHOOSE j \in before : \A k \in before : k <= j

\* C1: a flush that is not forced reaches the sink only when at least
\* STREAM_MIN_CHARS characters were appended since the last flush and at
\* least STREAM_UPDATE_INTERVAL_MS passed since the last flush; and while
\* the text stays below STREAM_MIN_CHARS and no forced flush was requested,
\* the stream text is not sent before the final update.
C1_FlushOnlyOverThresholds ==
    /\ \A i \in 1..Len(sink_log) :
         LET e == sink_log[i]
             last == LastFlushBefore(i)
         IN (IsFlush(e) /\ ~e.force)
            => /\ e.new_chars >= STREAM_MIN_CHARS
               /\ e.time_elapsed >= STREAM_UPDATE_INTERVAL_MS
               /\ splits = <<>>
                  => /\ TLen(e.acc) - (IF last = 0 THEN 0 ELSE TLen(sink_log[last].acc))
                          >= STREAM_MIN_CHARS
                     /\ last # 0
                        => e.time - sink_log[last].time >= STREAM_UPDATE_INTERVAL_MS
    /\ (TLen(streaming_text) < STREAM_MIN_CHARS /\ notifications = <<>> /\ splits = <<>>)
       => \A i \in 1..Len(sink_log) : IsFlush(sink_log[i]) => sink_log[i].site = "final"

\* A second flush that was not forced has reached the sink, and text of at
\* least STREAM_MIN_CHARS characters that came too soon after it is held back
C1_Witness ==
    /\ pc = "wait"
    /\ \E i \in 1..Len(sink_log) :
         IsFlush(sink_log[i]) /\ ~sink_log[i].force /\ sink_log[i].site = "loop"
    /\ TLen(streaming_text) - last_streamed_len >= STREAM_MIN_CHARS

\* C2: for text whose displayed form fits a message, every flush that
\* reaches the sink sends the accumulated text followed by the typing
\* indicator when it is not the final update, and the accumulated text alone
\* when it is.
C2_IndicatorUnlessFinal ==
    \A i \in 1..Len(sink_log) :
       LET e == sink_log[i]
       IN (IsFlush(e) /\ TLen(e.acc) + Len(STREAM_TYPING_INDICATOR) <= SLACK_MAX_MESSAGE_LENGTH)
          => e.text = IF e.site = "final"
                      THEN e.acc
                      ELSE TCat(e.acc, Enc(STREAM_TYPING_INDICATOR))

\* Whether a message was open when split sp was made
WasOpen(sp) == sp.ts # None

\* The sink call that finalizes the open message of split sp, and the flush
\* that follows the split
FinalizeCall(sp) == sink_log[sp.at + 1]
FlushAfter(sp) == sink_log[sp.at + (IF WasOpen(sp) THEN 2 ELSE 1)]

\* The continuation marker of split sp
MarkerOf(sp) == Enc(CONTINUATION_PREFIX \o IntToStr(sp.count) \o CONTINUATION_SUFFIX)

\* Whether every character of t is whitespace
AllSpace(t) == \A i \in 1..Len(t) : IsSpace(t[i].c)

\* What split sp preserves, log being the sink calls: the text sent as the
\* finalized message, without the continued marker (or, when no message was open, the text before the
\* break point), followed by the rest of the original text is the original
\* text; and the new accumulated text is the continuation marker followed
\* by that rest with only its leading whitespace removed.
SplitPreserved(sp, log) ==
    \A sent \in {log[sp.at + 1].text},
       new_text \in {log[sp.at + (IF WasOpen(sp) THEN 2 ELSE 1)].acc},
       marker \in {MarkerOf(sp)} :
    \A pre \in {IF WasOpen(sp)
                THEN TTake(sent, TLen(sent) - Len(CONTINUED_MARKER))
                ELSE TTake(sp.text, sp.break_point)} :
    \A post \in {TDrop(sp.text, TLen(pre))}, kept \in {TDrop(new_text, TLen(marker))} :
    \A trimmed \in {TTake(post, TLen(post) - TLen(kept))} :
       /\ WasOpen(sp) => TDrop(sent, TLen(pre)) = Enc(CONTINUED_MARKER)
       /\ TLen(pre) = sp.break_point
       /\ TCat(pre, post) = sp.text
       /\ TTake(new_text, TLen(marker)) = marker
       /\ TCat(trimmed, kept) = post
       /\ AllSpace(trimmed)
       /\ kept = <<>> \/ ~IsSpace(kept[1].c)

\* C3: a split preserves the text.  Every step that splits the accumulated
\* text leaves, for each split it makes, the pre-cutoff text followed by the
\* untrimmed post-cutoff text equal to the original text, and the new
\* accumulated text equal to the continuation marker followed by the
\* post-cutoff text with only its leading whitespace removed.
C3_SplitPreservesText ==
    [][\A k \in 1..Len(splits') : k > Len(splits) => SplitPreserved(splits'[k], sink_log')]_vars

\* An open message was split at a line break, which was trimmed from the
\* continuation
C3_Witness ==
    \E k \in 1..Len(splits) :
       /\ WasOpen(splits[k])
       /\ TLen(splits[k].remainder) < TLen(splits[k].text) - splits[k].break_point
       /\ FlushAfter(splits[k]).acc = splits[k].new_text

\* C4: whenever a flush splits, the text before the break point is sent to
\* the sink, as the finalized message, before it is removed from the
\* accumulated text, whether or not a message is open.
C4_SplitSendsTextBeforeBreak ==
    \A k \in 1..Len(splits) :
       LET sp == splits[k]
       IN /\ FinalizeCall(sp).kind = "finalize"
          /\ TTake(FinalizeCall(sp).text, sp.break_point) = TTake(sp.text, sp.break_point)

\* The positions start <= p < end of t that hold character c
PositionsOf(t, c, start, end) ==
    UNION { Max(RunStart(t, i), start)..(Min(RunStart(t, i + 1), end) - 1) :
              i \in {j \in 1..Len(t) : t[j].c = c} }

\* The highest element of a non-empty set of positions
Highest(positions) == CHOOSE p \in positions : \A q \in positions : q <= p

\* The messages that hold text of the stream: the handles its sink calls
\* created or updated
StreamMessages ==
    { sink_log[i].ts : i \in {j \in 1..Len(sink_log) :
                                 /\ sink_log[j].kind \in {"stream", "finalize"}
                                 /\ sink_log[j].ok} }

\* C5: a split breaks at the last line break in the NEWLINE_LOOKBACK
\* characters before the safety cutoff if there is one, else at the last
\* space in the SPACE_LOOKBACK characters before it if there is one, else at
\* the safety cutoff; and text that exceeds the maximum by 300 with a
\* newline 250 before the safety cutoff is broken at that newline into
\* exactly two messages.
C5_BreakPointAndTwoMessages ==
    \A k \in 1..Len(splits) :
       LET sp == splits[k]
           newlines == PositionsOf(sp.text, "\n", SAFE_CUTOFF - NEWLINE_LOOKBACK, SAFE_CUTOFF)
           spaces == PositionsOf(sp.text, " ", SAFE_CUTOFF - SPACE_LOOKBACK, SAFE_CUTOFF)
       IN /\ sp.break_point = IF newlines # {} THEN Highest(newlines)
                              ELSE IF spaces # {} THEN Highest(spaces)
                              ELSE SAFE_CUTOFF
          /\ ( /\ TLen(sp.text) = SLACK_MAX_MESSAGE_LENGTH + 300
               /\ newlines = {SAFE_CUTOFF - 250}
               /\ Len(splits) = 1
               /\ \A i \in 1..Len(sink_log) : sink_log[i].ok )
             => /\ sp.break_point = SAFE_CUTOFF - 250
                /\ Cardinality(StreamMessages) = 2

\* C6: a handle finalized by a split, which is then in all_message_ts_list,
\* is never the target of a later update, and the open handle is one
\* created after the most recent split.
C6_FinalizedNeverUpdated ==
    /\ \A k \in 1..Len(splits) :
         WasOpen(splits[k])
         => /\ \E n \in 1..Len(all_message_ts_list) : all_message_ts_list[n] = splits[k].ts
            /\ \A i \in (splits[k].at + 2)..Len(sink_log) :
                  sink_log[i].op = "update" => sink_log[i].ts # splits[k].ts
    /\ \A n \in 1..Len(all_message_ts_list) :
         /\ streaming_msg_ts # all_message_ts_list[n]
         /\ \E k \in 1..Len(splits) : splits[k].ts = all_message_ts_list[n]
    /\ (splits # <<>> /\ streaming_msg_ts # None)
       => \E i \in (splits[Len(splits)].at + 1)..Len(sink_log) :
             /\ sink_log[i].op = "create"
             /\ sink_log[i].ts = streaming_msg_ts

\* A message was finalized by a split and the message opened after it was
\* updated later
C6_Witness ==
    \E k \in 1..Len(splits) :
       /\ WasOpen(splits[k])
       /\ \E i \in (splits[k].at + 2)..Len(sink_log) :
             sink_log[i].op = "update" /\ sink_log[i].ok

\* The kind of tool of a tool_use item, for the kinds that are reported once
\* per key
KindOf(ev) ==
    CASE ev.name = N_Edit -> "Edit"
      [] ev.name = N_Write -> "Write"
      [] ev.name = N_Glob -> "Glob"
      [] ev.name = N_Grep -> "Grep"
      [] ev.name = N_WebFetch -> "WebFetch"
      [] ev.name = N_WebSearch -> "WebSearch"
      [] ev.name = N_Task -> "Task"
      [] StartsWith(ev.name, MCP_PREFIX) -> "mcp"
      [] OTHER -> "none"

\* The key of a tool_use item: the file name, the pattern, the domain, the
\* query, the description or the server; <<>> when it has none
KeyOf(ev) ==
    CASE KindOf(ev) \in {"Edit", "Write"} ->
           IF Get(ev.input, "file_path", <<>>) = <<>> THEN <<>>
           ELSE FileName(Get(ev.input, "file_path", <<>>))
      [] KindOf(ev) \in {"Glob", "Grep"} -> Get(ev.input, "pattern", <<>>)
      [] KindOf(ev) = "WebFetch" ->
           IF Get(ev.input, "url", <<>>) # <<>> /\ HasDomain(Get(ev.input, "url", <<>>))
           THEN Domain(Get(ev.input, "url", <<>>))
           ELSE <<>>
      [] KindOf(ev) = "WebSearch" -> Get(ev.input, "query", <<>>)
      [] KindOf(ev) = "Task" -> Get(ev.input, "description", DEFAULT_DESCRIPTION)
      [] KindOf(ev) = "mcp" ->
           IF Len(Split(ev.name, <<"_", "_">>)) >= 3
           THEN Split(ev.name, <<"_", "_">>)[2]
           ELSE <<>>
      [] OTHER -> <<>>

\* The tool_use items of the kind and key of item i
SameKey(i) ==
    {j \in 1..Len(tool_events) :
        /\ KindOf(tool_events[j]) = KindOf(tool_events[i])
        /\ KeyOf(tool_events[j]) = KeyOf(tool_events[i])}

\* The number of tool_use items of a kind
CountOf(kind) == Cardinality({j \in 1..Len(tool_events) : KindOf(tool_events[j]) = kind})

\* C7: for each kind of tool reported by key, two invocations with the
\* same key cause exactly one notification, and the counter of the kind
\* counts both.
C7_OneNotificationPerKey ==
    /\ \A i \in 1..Len(tool_events) :
         (KeyOf(tool_events[i]) # <<>> /\ Cardinality(SameKey(i)) >= 2)
         => Cardinality({n \in 1..Len(notifications) : notifications[n] \in SameKey(i)}) = 1
    /\ edits = CountOf("Edit") /\ writes = CountOf("Write")
    /\ globs = CountOf("Glob") /\ greps = CountOf("Grep")
    /\ web_fetches = CountOf("WebFetch") /\ web_searches = CountOf("WebSearch")
    /\ tasks = CountOf("Task") /\ mcp_calls = CountOf("mcp")

\* The sink calls of the final update: its flushes, and the updates that
\* finalize a message it splits
FinalFlushes == {i \in 1..Len(sink_log) : sink_log[i].site = "final" /\ IsFlush(sink_log[i])}
FinalFinalizes ==
    {i \in 1..Len(sink_log) : sink_log[i].site = "final" /\ sink_log[i].kind = "finalize"}
Fallbacks == {i \in 1..Len(sink_log) : sink_log[i].kind = "fallback"}

\* The final update failed twice and succeeded the third time
ThirdAttemptSucceeded == attempt = FINAL_ATTEMPTS /\ final_update_success

\* The final update failed every time, and the fallback step is over
AllAttemptsFailed ==
    /\ attempt = FINAL_ATTEMPTS /\ ~final_update_success
    /\ pc \in {"summary", "outcome", "cleanup", "done"}

\* C8 as stated: when the final update fails on attempts 1 and 2 and
\* succeeds on attempt 3, exactly 3 sink calls are made during finalization
\* and no fallback message is sent.
C8_ExactlyThreeSinkCalls ==
    ThirdAttemptSucceeded
    => /\ Cardinality({i \in 1..Len(sink_log) : sink_log[i].site = "final"}) = 3
       /\ Fallbacks = {}

\* C8, amended: when the final update fails on attempts 1 and 2 and succeeds
\* on attempt 3, exactly 3 sink calls carry the current text, the first two
\* failing and the third succeeding; they are preceded by one more sink
\* call, the update that finalizes the open message, exactly when the first
\* attempt splits the text while a message is open; and no fallback message
\* is sent.
C8_ThreeFlushesAndOneFinalize ==
    ThirdAttemptSucceeded
    => /\ Cardinality(FinalFlushes) = 3
       /\ \A i \in FinalFlushes :
             sink_log[i].ok <=> \A j \in FinalFlushes : j <= i
       /\ Cardinality(FinalFinalizes) =
             IF \E k \in 1..Len(splits) : splits[k].site = "final" /\ WasOpen(splits[k])
             THEN 1 ELSE 0
       /\ \A i \in FinalFinalizes : \A j \in FinalFlushes : i < j
       /\ Fallbacks = {}

\* The third attempt succeeded after the first attempt split an open message
C8_Witness ==
    /\ ThirdAttemptSucceeded
    /\ FinalFinalizes # {}

\* Whether x is the end of t
IsSuffix(x, t) == TLen(x) <= TLen(t) /\ TLastChars(t, TLen(x)) = x

\* C9: when the final update fails on all 3 attempts, exactly one fallback
\* message is created, after the third failed attempt, and its text is the
\* end of the accumulated text (after the ellipsis that stands for what was
\* cut); and a fallback message is created in no other case.
C9_OneFallbackWithTail ==
    /\ AllAttemptsFailed
       => /\ Cardinality(Fallbacks) = 1
          /\ Cardinality(FinalFlushes) = FINAL_ATTEMPTS
          /\ \A i \in Fallbacks :
                LET e == sink_log[i]
                IN /\ e.op = "create"
                   /\ \A j \in FinalFlushes : j < i /\ ~sink_log[j].ok
                   /\ e.text # <<>>
                   /\ \/ e.text = e.acc
                      \/ /\ TLen(e.acc) > SLACK_MAX_MESSAGE_LENGTH
                         /\ TTake(e.text, Len(FALLBACK_PREFIX)) = Enc(FALLBACK_PREFIX)
                         /\ TDrop(e.text, Len(FALLBACK_PREFIX)) # <<>>
                         /\ IsSuffix(TDrop(e.text, Len(FALLBACK_PREFIX)), e.acc)
    /\ Fallbacks # {} => attempt = FINAL_ATTEMPTS /\ ~final_update_success

\* All attempts failed on a text longer than a message, and the fallback
\* message holds its end
C9_Witness ==
    /\ AllAttemptsFailed
    /\ \E i \in Fallbacks : sink_log[i].text # sink_log[i].acc

\* A read of the output of the process raised
ReadFailed == \E i \in 1..Len(process_log) : process_log[i] = ReadError

\* Every Popen of the run started its process
EveryProcessStarted ==
    \A i \in 1..Len(process_log) : process_log[i].op = "spawn" => process_log[i].ok

\* C10: a line that is not a well-formed event record does not abort the
\* stream: in a run whose output could be read, the read loop ends only at
\* the end of the output, and a run that has read a line of a process it
\* went on with reaches the finalization.
C10_MalformedLinesDoNotAbort ==
    /\ (pc \in {"wait", "final", "fallback", "summary", "outcome"} /\ ~ReadFailed) => eof
    /\ (pc \in {"cleanup", "done"} /\ first_line # NoLine /\ ~ReadFailed /\ EveryProcessStarted)
       => \E n \in 1..Len(log_events) : log_events[n].event = "Session completed"

\* The places of the Popen calls in process_log
Spawns == {i \in 1..Len(process_log) : process_log[i].op = "spawn"}

\* Whether a line, as the process wrote it, holds the words of the session
\* diagnostic: anywhere in a line that is not JSON, and in any string of a
\* record whose letters are written as themselves, the figures of a result
\* that are strings included
Says(line, words) ==
    LET Written(s) ==
            \E i \in 1..(Len(s) - Len(words) + 1) :
                SubSeq(s, i, i + Len(words) - 1) = words
        InContent(item) ==
            \/ item.type = "text" /\ TContains(item.text, words)
            \/ /\ item.type = "tool_use"
               /\ \/ Written(item.name)
                  \/ \E key \in DOMAIN item.input : Written(item.input[key])
    IN \/ line.kind = "raw" /\ Written(line.raw)
       \/ /\ line.kind \notin {"raw", "none"}
          /\ "escaped" \notin DOMAIN line
          /\ \/ line.kind = "assistant"
                /\ \E i \in 1..Len(line.content) : InContent(line.content[i])
             \/ line.kind = "result" /\ TContains(line.result, words)
             \/ /\ line.kind = "result"
                /\ \/ Written(line.duration_ms.str) \/ Written(line.cost.str)
                   \/ Written(line.usage.str)
                   \/ \E count \in {"input_tokens", "cache_read_input_tokens",
                                     "cache_creation_input_tokens", "output_tokens"} :
                         Written(line.usage[count].str)
             \/ "extra" \in DOMAIN line /\ Written(line.extra)

\* The session diagnostic of claude-streamer-dev.py
SaysAlreadyInUse(line) == Says(line, ALREADY_IN_USE)

\* The session diagnostic of the script that runs
SaysDiagnostic(line) ==
    IF script = DEV_SCRIPT THEN SaysAlreadyInUse(line) ELSE Says(line, NO_CONVERSATION_FOUND)

\* The session flag of the first process of the script that runs, and the
\* alternate one
FirstFlag == IF script = DEV_SCRIPT THEN "--session-id" ELSE "--resume"
AlternateFlag == IF script = DEV_SCRIPT THEN "--resume" ELSE "--session-id"

\* C11: in either script the process is started at most twice in a run.
\* It is started a second time only after the first process started and its
\* first line of output held the session diagnostic of the script ("already
\* in use" in claude-streamer-dev.py, whose first process uses --session-id;
\* "No conversation found" in claude-streamer.py, whose first process uses
\* --resume); then the first process is killed and waited for before the
\* second Popen, which uses the alternate flag; and whatever the second
\* process prints, no third process is started.
C11_RestartOnceOnDiagnostic ==
    /\ Cardinality(Spawns) <= 2
    /\ restarted <=> Cardinality(Spawns) = 2
    /\ Spawns # {} => process_log[1] \in {Popen(FirstFlag, TRUE), Popen(FirstFlag, FALSE)}
    /\ Cardinality(Spawns) = 2
       => /\ process_log[1] = Popen(FirstFlag, TRUE)
          /\ process_log[2].op = "readline" /\ SaysDiagnostic(process_log[2].line)
          /\ process_log[3] = Kill
          /\ process_log[4] = WaitFor
          /\ process_log[5].op = "spawn" /\ process_log[5].flag = AlternateFlag

\* After a restart the second process printed the session diagnostic too,
\* which was read as an ordinary line, and the run went on to its end
C11_Witness ==
    /\ restarted
    /\ pc = "done"
    /\ \E n \in 1..Len(error_lines) : SaysDiagnostic(RawLine(error_lines[n]))

\* C12: the processing reaction that main adds before its guarded section
\* is removed on every way out of main after it was added, the ways taken
\* by an exception included: no run ends with the reaction still set.
C12_ProcessingReactionRemoved ==
    pc = "done" => PROCESSING_EMOJI \notin reactions

\* C13: once the guarded section is entered, the removal of the temporary
\* directory is attempted on every way out of main, that is, by every step
\* that ends main: after the outcome, after the prompt that answers an empty
\* message, and after an exception of the download, of Popen, of the
\* processing of a line or of the finalization.  Until main has ended the
\* directory is kept.
C13_TempDirRemoved ==
    /\ [](pc # "done" => temp_dir)
    /\ [][pc' = "done" => ~temp_dir']_vars

\* The fallback message failed by an exception where sys.stderr is closed:
\* the print of the exception raised, main was left from its finalization,
\* and the directory was removed
C13_Witness ==
    /\ pc = "done" /\ raised /\ ~temp_dir
    /\ \E i \in 1..Len(sink_log) : sink_log[i].kind = "fallback" /\ ~sink_log[i].ok
    /\ \A k \in 1..Len(log_events) :
          log_events[k].event \notin {"Fallback message also failed!", "Session completed",
                                      "Summary/stats error"}

\* C14: no create or update call that carries the streamed text, a
\* continuation of it, the fallback text or the result text puts on the
\* wire more characters than the maximum message length plus the
\* truncation notice.
C14_SinkTextBounded ==
    \A i \in 1..Len(sink_log) :
        sink_log[i].kind \in {"stream", "finalize", "fallback", "result"}
        => TLen(sink_log[i].text) <= SLACK_MAX_MESSAGE_LENGTH + Len(TRUNCATION_NOTICE)

\* The Read invocations among the tool_use items
ReadEvents == {j \in 1..Len(tool_events) : tool_events[j].name = N_Read}

\* C15: a Read invocation is counted and never notified: the step that
\* handles one adds one to the read counter, makes no sink call, reports
\* nothing and leaves the accumulated text as it is.
C15_ReadCountedNotNotified ==
    [][(/\ Len(tool_events') = Len(tool_events) + 1
        /\ tool_events'[Len(tool_events')].name = N_Read
        /\ text_deltas' = text_deltas)
       => /\ reads' = reads + 1
          /\ sink_log' = sink_log
          /\ streaming_text' = streaming_text
          /\ notifications' = notifications]_vars

\* A Read was handled while text was accumulated
C15_Witness ==
    /\ ReadEvents # {} /\ Len(tool_events) \in ReadEvents
    /\ reads = Cardinality(ReadEvents)
    /\ streaming_text # <<>>

\* The error notifications sent
ErrorNotifications == {i \in 1..Len(sink_log) : sink_log[i].kind = "error"}

\* C16: when main has classified the outcome, the run is marked success if a
\* text delta was streamed or the result event carried text; otherwise, if
\* the process exited with a non-zero status, an error notification was
\* sent and the run is marked error; otherwise the run is marked success
\* and no error notification was sent.
C16_OutcomeClassification ==
    (pc = "done" /\ ~raised /\ process_log # <<>>)
    => IF text_deltas > 0 \/ final_result # <<>>
       THEN SUCCESS_EMOJI \in reactions /\ ERROR_EMOJI \notin reactions
       ELSE IF returncode # 0
       THEN /\ ERROR_EMOJI \in reactions /\ SUCCESS_EMOJI \notin reactions
            /\ Cardinality(ErrorNotifications) = 1
       ELSE /\ SUCCESS_EMOJI \in reactions /\ ERROR_EMOJI \notin reactions
            /\ ErrorNotifications = {}

\* The summary messages sent
SummaryCalls == {i \in 1..Len(sink_log) : sink_log[i].kind = "summary"}

\* The counters in the order of the summary, each with its verb and unit
CounterTable ==
    << <<V_READ, reads, U_FILES>>, <<V_EDITED, edits, U_FILES>>,
       <<V_CREATED, writes, U_FILES>>, <<V_RAN, commands, U_COMMANDS>>,
       <<V_SEARCHED, globs, U_PATTERNS>>, <<V_GREPPED, greps, U_TIMES>>,
       <<V_FETCHED, web_fetches, U_URLS>>, <<V_WEB_SEARCHED, web_searches, U_TIMES>>,
       <<V_SPAWNED, tasks, U_AGENTS>>, <<V_CALLED, mcp_calls, U_MCP_TOOLS>> >>

\* The rows of the table from row k on whose counter is not zero, as phrases
RECURSIVE PhrasesFrom(_, _)
PhrasesFrom(table, k) ==
    IF k > Len(table) THEN <<>>
    ELSE (IF table[k][2] # 0
          THEN << table[k][1] \o IntToStr(table[k][2]) \o table[k][3] >>
          ELSE <<>>)
         \o PhrasesFrom(table, k + 1)

\* main is past the summary step
SummaryDone ==
    \/ pc = "outcome"
    \/ pc \in {"cleanup", "done"} /\ ~raised /\ process_log # <<>>

\* C17: the summary message is sent if and only if some counter is not
\* zero; it is sent once, and it is "Done: " followed by one phrase for
\* each counter that is not zero, with the counter's final value, in the
\* order read, edited, created, ran, searched, grepped, fetched, web
\* searched, spawned, called, joined by ", ".
C17_SummaryOfNonZeroCounters ==
    /\ ~SummaryDone => SummaryCalls = {}
    /\ SummaryDone =>
         \A expected \in {PhrasesFrom(CounterTable, 1)} :
            IF expected = <<>>
            THEN SummaryCalls = {}
            ELSE /\ Cardinality(SummaryCalls) = 1
                 /\ \A i \in SummaryCalls :
                       sink_log[i].text = Enc(DONE_PREFIX \o Join(expected, COMMA_SPACE))

\* A summary of two counters was sent: a file was read and another edited
C17_Witness ==
    /\ pc = "done" /\ SummaryCalls # {}
    /\ reads = 1 /\ edits = 1

\* The sink calls of update_stream_if_needed: its flushes and the updates
\* that finalize a message it splits
IsStreamCall(e) == e.kind \in {"stream", "finalize"}

\* The failed sink calls of the flushes made while the output is read
FailedLoopCalls ==
    {i \in 1..Len(sink_log) :
        sink_log[i].site = "loop" /\ IsStreamCall(sink_log[i]) /\ ~sink_log[i].ok}

\* The next sink call of a flush after call i, 0 when there is none
NextStreamCall(i) ==
    LET later == {j \in (i + 1)..Len(sink_log) : IsStreamCall(sink_log[j])}
    IN IF later = {} THEN 0 ELSE CHOOSE j \in later : \A k \in later : j <= k

\* The handle of the message open when sink call j is made: created by a
\* flush and not finalized since
OpenAt(j) ==
    {sink_log[k].ts : k \in {c \in 1..(j - 1) :
        /\ sink_log[c].kind = "stream" /\ sink_log[c].op = "create" /\ sink_log[c].ok
        /\ \A m \in (c + 1)..(j - 1) :
              ~(sink_log[m].kind = "finalize" /\ sink_log[m].ts = sink_log[c].ts)}}

\* Whether text t starts with text x
IsPrefix(x, t) == TLen(x) <= TLen(t) /\ TTake(t, TLen(x)) = x

\* What a flush of the accumulated text acc puts on the wire
WireText(op, acc, force) ==
    IF op = "update" THEN TruncateForUpdate(DisplayText(acc, force)) ELSE DisplayText(acc, force)

\* C18: a sink call that fails in a flush made while the output is read
\* loses no text: the text accumulated when it failed is still the start of
\* the accumulated text at the next sink call of a flush, and the next
\* flush sends the whole accumulated text, with a create call when no
\* message is open and with an update of the open message otherwise.
C18_FailedFlushLosesNoText ==
    \A i \in FailedLoopCalls :
        \A j \in {NextStreamCall(i)} \ {0} :
            /\ IsPrefix(sink_log[i].acc, sink_log[j].acc)
            /\ sink_log[j].kind = "stream"
               => sink_log[j].text = WireText(sink_log[j].op, sink_log[j].acc, sink_log[j].force)
            /\ IF OpenAt(j) = {}
               THEN sink_log[j].op = "create"
               ELSE sink_log[j].op = "update" /\ sink_log[j].ts \in OpenAt(j)

\* main is past the final update and the fallback
FinalizationDone == pc = "summary" \/ SummaryDone

\* What the attempts made so far have come to
AttemptsCounted ==
    /\ Cardinality(FinalFlushes) <= 3
    /\ \A i \in FinalFlushes : sink_log[i].ok => \A j \in FinalFlushes : j <= i
    /\ \A i \in Fallbacks :
          /\ Cardinality(FinalFlushes) = 3
          /\ \A j \in FinalFlushes : j < i /\ ~sink_log[j].ok
    /\ (FinalizationDone /\ streaming_text # <<>>)
       => /\ Cardinality(FinalFlushes) >= 1
          /\ Fallbacks # {}
             <=> (Cardinality(FinalFlushes) = 3 /\ \A j \in FinalFlushes : ~sink_log[j].ok)
    /\ (FinalizationDone /\ streaming_text = <<>>) => FinalFlushes = {} /\ Fallbacks = {}

\* The step is an attempt in which an exception was raised, caught and logged
AttemptRaised ==
    /\ pc = "final"
    /\ log_events' = Append(log_events, [level |-> "error",
                                         event |-> "Final update attempt exception"])
    /\ ~raised'

\* C19: when the output has ended with text accumulated, the final update
\* is attempted at least once and at most 3 times, no attempt follows one
\* that succeeded, and the fallback message is sent if and only if 3
\* attempts were made and all of them failed.  An attempt in which an
\* exception is raised counts as an attempt that failed: after the pause it
\* is followed by the next attempt, or after the third by the fallback.
C19_AttemptsAndFallback ==
    /\ []AttemptsCounted
    /\ [][AttemptRaised
            => /\ attempt' = attempt + 1
               /\ ~final_update_success'
               /\ now' = now + RETRY_PAUSE_MS
               /\ pc' = IF attempt' = FINAL_ATTEMPTS THEN "fallback" ELSE "final"]_vars

\* Where sys.stderr is closed the first attempt failed and raised, and the
\* second succeeded: no third attempt and no fallback were made
C19_Witness ==
    /\ pc = "done"
    /\ Cardinality({k \in 1..Len(log_events) :
                       log_events[k].event = "Final update attempt exception"}) = 1
    /\ Cardinality(FinalFlushes) = 2
    /\ \E i \in FinalFlushes : sink_log[i].ok
    /\ Fallbacks = {}

\* The final update was delivered, or the fallback message was attempted
DeliveryDecided ==
    \/ \E i \in FinalFlushes : sink_log[i].ok
    \/ Fallbacks # {}

\* The summary step and the outcome step are over: the summary step ended
\* with its last log event or in its except clause (lines 756-758)
Completed ==
    /\ pc \in {"cleanup", "done"}
    /\ \E k \in 1..Len(log_events) :
          log_events[k].event \in {"Session completed", "Summary/stats error"}
    /\ PROCESSING_EMOJI \notin reactions

\* C20: whenever the finalization is entered with text accumulated, then
\* whichever sink calls fail, the run comes to a state where the final
\* update was delivered or the fallback message was attempted, and the
\* summary step and the outcome step are over.
C20_FinalizationDecides ==
    (pc = "final" /\ attempt = 0 /\ streaming_text # <<>>) ~> (DeliveryDecided /\ Completed)

\* Every attempt failed and the fallback message failed too; the run went on
\* to its outcome
C20_Witness ==
    /\ Completed
    /\ \A i \in FinalFlushes : ~sink_log[i].ok
    /\ \E i \in Fallbacks : ~sink_log[i].ok

\* C21: the text of the fallback message is never longer than the maximum
\* message length and always ends with the end of the accumulated text: an
\* accumulated text that fits is sent whole; otherwise the text sent is the
\* marker "...\n\n" followed by characters that end the accumulated text.
C21_FallbackFitsAndKeepsTail ==
    \A i \in Fallbacks :
        \A text \in {sink_log[i].text}, acc \in {sink_log[i].acc} :
            /\ TLen(text) <= SLACK_MAX_MESSAGE_LENGTH
            /\ IF TLen(acc) <= SLACK_MAX_MESSAGE_LENGTH
               THEN text = acc
               ELSE /\ TTake(text, Len(FALLBACK_PREFIX)) = Enc(FALLBACK_PREFIX)
                    /\ TLen(text) > Len(FALLBACK_PREFIX)
                    /\ IsSuffix(TDrop(text, Len(FALLBACK_PREFIX)), acc)
                    /\ TLen(text) < TLen(acc)

\* A fallback message was delivered for an accumulated text longer than a
\* message
C21_Witness ==
    \E i \in Fallbacks :
        /\ TLen(sink_log[i].acc) > SLACK_MAX_MESSAGE_LENGTH
        /\ TLen(sink_log[i].text) <= SLACK_MAX_MESSAGE_LENGTH
        /\ sink_log[i].ok

\* The log events of a level and text
Logged(level, event) ==
    {k \in 1..Len(log_events) : log_events[k] = [level |-> level, event |-> event]}

\* The log events of a text, at any level
LoggedAtAnyLevel(event) == {k \in 1..Len(log_events) : log_events[k].event = event}

\* C22: a fallback message that failed is told apart from a delivered one in
\* the log: after a failed fallback call an error event "Fallback message
\* also failed!" is recorded and no event of success; after a delivered one
\* the event "Fallback message sent successfully" is recorded and no event
\* of the fallback's failure.
C22_FallbackOutcomeLogged ==
    /\ pc # "fallback"
       => \A i \in Fallbacks :
             IF sink_log[i].ok
             THEN /\ Cardinality(Logged("info", "Fallback message sent successfully")) = 1
                  /\ LoggedAtAnyLevel("Fallback message also failed!") = {}
             ELSE /\ Cardinality(Logged("error", "Fallback message also failed!")) = 1
                  /\ LoggedAtAnyLevel("Fallback message sent successfully") = {}
                  /\ LoggedAtAnyLevel("Final streaming update succeeded") = {}
    /\ Fallbacks = {}
       => /\ LoggedAtAnyLevel("Fallback message sent successfully") = {}
          /\ LoggedAtAnyLevel("Fallback message also failed!") = {}

\* The fallback message failed and the run went on to its end
C22_Witness ==
    /\ pc = "done"
    /\ \E i \in Fallbacks : ~sink_log[i].ok
    /\ Logged("error", "Fallback message also failed!") # {}

\* The Bash invocations among the tool_use items, and the command of one
BashEvents == {j \in 1..Len(tool_events) : tool_events[j].name = N_Bash}
CommandOf(j) == Get(tool_events[j].input, "command", <<>>)

\* The inspection commands of the denylist
INSPECTION_COMMANDS ==
    { <<"c", "a", "t">>, <<"h", "e", "a", "d">>, <<"t", "a", "i", "l">>, <<"l", "s">>,
      <<"p", "w", "d">>, <<"e", "c", "h", "o">>, <<"g", "r", "e", "p">>,
      <<"f", "i", "n", "d">>, <<"s", "o", "u", "r", "c", "e">> }

\* Whether a command starts with an inspection command of the denylist
IsInspection(cmd) ==
    \E p \in INSPECTION_COMMANDS : Len(p) <= Len(cmd) /\ SubSeq(cmd, 1, Len(p)) = p

\* The tool_use items that were notified
NotifiedEvents == {notifications[n] : n \in 1..Len(notifications)}

\* C23: a Bash invocation whose command starts with cat, head, tail, ls,
\* pwd, echo, grep, find or source is neither counted nor notified; every
\* Bash invocation with a non-empty command that does not is notified;
\* and the command counter is the number of the latter.
C23_InspectionCommandsSkipped ==
    /\ \A j \in BashEvents :
          /\ IsInspection(CommandOf(j)) => j \notin NotifiedEvents
          /\ (CommandOf(j) # <<>> /\ ~IsInspection(CommandOf(j))) => j \in NotifiedEvents
    /\ commands = Cardinality({j \in BashEvents :
                                  CommandOf(j) # <<>> /\ ~IsInspection(CommandOf(j))})

\* The number of tool_use items of a name among events
Invocations(events, name) ==
    Cardinality({j \in 1..Len(events) : events[j].name = name})

\* The number of tool_use items among events whose name starts with mcp__
McpInvocations(events) ==
    Cardinality({j \in 1..Len(events) :
                    /\ Len(events[j].name) >= 5
                    /\ SubSeq(events[j].name, 1, 5) = <<"m", "c", "p", "_", "_">>})

\* Whether the counters c of the tools other than Bash are the numbers of
\* their invocations among events
CountersMatch(events, c) ==
    /\ c[1] = Invocations(events, N_Edit) /\ c[2] = Invocations(events, N_Write)
    /\ c[3] = Invocations(events, N_Read) /\ c[4] = Invocations(events, N_Glob)
    /\ c[5] = Invocations(events, N_Grep) /\ c[6] = Invocations(events, N_WebFetch)
    /\ c[7] = Invocations(events, N_WebSearch) /\ c[8] = Invocations(events, N_Task)
    /\ c[9] = McpInvocations(events)

\* The counters of the tools other than Bash
ToolCounters ==
    <<edits, writes, reads, globs, greps, web_fetches, web_searches, tasks, mcp_calls>>

\* C24: after every step, each counter of a tool other than Bash is the
\* number of invocations of that tool handled so far, whether or not the
\* invocation was notified, repeated an earlier one or lacked its
\* parameter; and no step decreases a counter.
C24_CountersCountInvocations ==
    [][/\ CountersMatch(tool_events', ToolCounters')
       /\ \A k \in 1..9 : ToolCounters'[k] >= ToolCounters[k]]_vars

\* The same edit was handled twice: both were counted, one was notified
C24_Witness ==
    /\ Len(tool_events) = 2 /\ tool_events[1] = tool_events[2]
    /\ edits = 2
    /\ NotifiedEvents = {1}

\* The Glob and Grep invocations that carry a pattern, and the pattern of one
SearchEvents ==
    {j \in 1..Len(tool_events) :
        /\ tool_events[j].name \in {N_Glob, N_Grep}
        /\ Get(tool_events[j].input, "pattern", <<>>) # <<>>}
PatternOf(j) == Get(tool_events[j].input, "pattern", <<>>)

\* C25: a Glob or Grep invocation with a pattern is notified exactly when
\* no earlier invocation of the same tool in the run had the same pattern.
C25_SearchNotifiedPerPattern ==
    \A j \in SearchEvents :
        j \in NotifiedEvents
        <=> ~\E i \in SearchEvents :
                /\ i < j
                /\ tool_events[i].name = tool_events[j].name
                /\ PatternOf(i) = PatternOf(j)

\* The sink calls of the wrap-up in a log: those of the final update and the
\* fallback, which carry the stream text, the summary and the stats
TextCallsIn(log) ==
    {i \in 1..Len(log) : log[i].kind = "fallback"
                         \/ (log[i].site = "final" /\ log[i].kind \in {"stream", "finalize"})}
SummaryCallsIn(log) == {i \in 1..Len(log) : log[i].kind = "summary"}
StatsCallsIn(log) == {i \in 1..Len(log) : log[i].kind = "stats"}
WrapUpCallsIn(log) == TextCallsIn(log) \cup SummaryCallsIn(log) \cup StatsCallsIn(log)

\* Whether the wrap-up calls of a log are in order
WrapUpOrdered(log) ==
    /\ \A i \in TextCallsIn(log) : \A s \in SummaryCallsIn(log) \cup StatsCallsIn(log) : i < s
    /\ \A s \in SummaryCallsIn(log) : \A t \in StatsCallsIn(log) : s < t

\* Whether the final reaction is among the reactions r
HasFinalReaction(r) == SUCCESS_EMOJI \in r \/ ERROR_EMOJI \in r

\* C26: in a run that started the process, the sink calls of the final
\* update and the fallback come before the summary message, the summary
\* message before the stats message, and no wrap-up call is made once the
\* final reaction is set; and no wrap-up call is made and no final
\* reaction is set before the output of the process has ended, or can no
\* longer be read.
C26_WrapUpOrder ==
    [][/\ WrapUpOrdered(sink_log')
       /\ WrapUpCallsIn(sink_log') # WrapUpCallsIn(sink_log)
          => (eof \/ ReadFailed) /\ ~HasFinalReaction(reactions) /\ ~HasFinalReaction(reactions')
       /\ (process_log # <<>> /\ HasFinalReaction(reactions') /\ ~HasFinalReaction(reactions))
          => (eof \/ ReadFailed) /\ StatsCallsIn(sink_log) # {}]_vars

\* The characters of the marker that numbers a continuation:
\* "_[Continuation k]_\n\n"
NumberedMarker(k) ==
    <<"_", "[", "C", "o", "n", "t", "i", "n", "u", "a", "t", "i", "o", "n", " ">>
    \o IntToStr(k) \o <<"]", "_", "\n", "\n">>

\* The markers of the continuations a run can make: one split for each line
\* read and for each attempt of the final update
NumberedMarkers ==
    [k \in 1..(MaxLongLines + FINAL_ATTEMPTS) |->
        [text |-> Enc(NumberedMarker(k)), len |-> Len(NumberedMarker(k))]]

\* Split k of the splits sps is the k-th continuation, log being the sink
\* calls: its counter is k, and the flush after it creates a message, with
\* the length at the last flush being zero, whose text starts with marker k
SplitNumbered(sps, log, k) ==
    \A e \in {log[sps[k].at + (IF sps[k].ts # None THEN 2 ELSE 1)]},
       marker \in {NumberedMarkers[k]} :
        /\ sps[k].count = k
        /\ e.kind = "stream" /\ e.op = "create"
        /\ e.streamed = 0
        /\ TTake(e.acc, marker.len) = marker.text
        /\ TTake(e.text, marker.len) = marker.text

\* C27: every split adds exactly one to the continuation counter, so the
\* k-th split of a run makes the counter k; the message sent after it is
\* created, not updated, with no message open and the length at the last
\* flush being zero when it is sent, and its text starts with the marker of
\* continuation k: the markers are numbered 1, 2, 3, ... in the order of
\* the messages.
C27_ContinuationsNumbered ==
    [][/\ continuation_count' - continuation_count = Len(splits') - Len(splits)
       /\ continuation_count' = Len(splits')
       /\ \A k \in (Len(splits) + 1)..Len(splits') :
             SplitNumbered(splits', sink_log', k)]_vars

\* Three splits were made in a run, the last two by attempts of the final
\* update
C27_Witness ==
    /\ Len(splits) = 3
    /\ splits[3].site = "final"

\* The sink calls of update_stream_if_needed in a log
StreamCallsIn(log) == {i \in 1..Len(log) : IsStreamCall(log[i])}

\* C28: a step of main in which no split is made only appends to the
\* accumulated text, and leaves the continuation counter and the list of
\* finalized handles as they were, whatever it flushes; a step in which
\* update_stream_if_needed makes no sink call (it was not called, or it
\* decided not to flush) leaves the open-message handle, the time and the
\* length of the last flush, the continuation counter and the list of
\* finalized handles as they were; and an attempt of the final update, which
\* appends nothing, leaves the accumulated text as it was unless it splits.
C28_FlushWithoutSplitKeepsState ==
    [][/\ Len(splits') = Len(splits)
          => /\ IsPrefix(streaming_text, streaming_text')
             /\ continuation_count' = continuation_count
             /\ all_message_ts_list' = all_message_ts_list
       /\ (Len(splits') = Len(splits) /\ pc = "final")
          => streaming_text' = streaming_text
       /\ StreamCallsIn(sink_log') = StreamCallsIn(sink_log)
          => /\ streaming_msg_ts' = streaming_msg_ts
             /\ last_stream_update' = last_stream_update
             /\ last_streamed_len' = last_streamed_len
             /\ continuation_count' = continuation_count
             /\ all_message_ts_list' = all_message_ts_list
             /\ Len(splits') = Len(splits)]_vars

\* A flush was made without a split, and text was appended after it by a
\* line whose flush call decided not to flush
C28_Witness ==
    /\ splits = <<>>
    /\ \E i \in StreamCallsIn(sink_log) :
          /\ sink_log[i].ok
          /\ TLen(sink_log[i].acc) > 0
          /\ TLen(sink_log[i].acc) = last_streamed_len
    /\ last_streamed_len < TLen(streaming_text)
    /\ pc = "loop"

\* The number of captured lines that the error report prints
ERROR_LINES_REPORTED == 5

\* C29: the list of captured lines that are not JSON never holds more than
\* the 5 lines that are reported.
C29_DiagnosticLogBounded == Len(error_lines) <= ERROR_LINES_REPORTED

\* The flushes that follow the splits sps
FlushesAfterSplits(sps) ==
    {sps[k].at + (IF sps[k].ts # None THEN 2 ELSE 1) : k \in 1..Len(sps)}

\* Sink call i of the log is within the maximum if it is an update made by
\* update_stream_if_needed, after is the set of flushes that follow a split
UpdateWithinMaximum(log, after, i) ==
    \A e \in {log[i]} :
    \A len \in {IF IsStreamCall(e) THEN TLen(e.text) ELSE 0} :
        /\ (IsStreamCall(e) /\ e.op = "update")
           => /\ len <= SLACK_MAX_MESSAGE_LENGTH
              /\ e.kind = "stream"
                 => /\ e.text = DisplayText(e.acc, e.force)
                    /\ i \notin after
              /\ e.kind = "finalize"
                 => /\ len <= SAFE_CUTOFF + Len(CONTINUED_MARKER)
                    /\ TLen(e.acc) + (IF e.force THEN 0 ELSE Len(STREAM_TYPING_INDICATOR))
                          > SLACK_MAX_MESSAGE_LENGTH
        /\ (e.kind = "stream" /\ len > SLACK_MAX_MESSAGE_LENGTH) => i \in after
        /\ i \in after => e.kind = "stream" /\ e.op = "create"

\* Split k of the splits sps was made with a display text over the maximum
SplitForced(sps, log, k) ==
    TLen(sps[k].text) + (IF log[sps[k].at + 1].force THEN 0 ELSE Len(STREAM_TYPING_INDICATOR))
       > SLACK_MAX_MESSAGE_LENGTH

\* C30: update_stream_if_needed never updates a message with a text longer
\* than SLACK_MAX_MESSAGE_LENGTH, so an update of it is never truncated: a
\* flush that updates carries the display text whole, an update that
\* finalizes a message carries at most SAFE_CUTOFF characters and the
\* continued marker, a split is made exactly when the display text is over
\* the maximum, and the flush after a split, the only one whose text can be
\* over the maximum, creates a message.
C30_UpdatesWithinMaximum ==
    [][/\ \A after \in {FlushesAfterSplits(splits')} :
             \A i \in (Len(sink_log) + 1)..Len(sink_log') :
                 UpdateWithinMaximum(sink_log', after, i)
       /\ \A k \in (Len(splits) + 1)..Len(splits') :
             SplitForced(splits', sink_log', k)]_vars

\* A split finalized the open message with an update, and the text left
\* over, still longer than the maximum, went out in a create call
C30_Witness ==
    \E k \in 1..Len(splits) :
        /\ splits[k].ts # None
        /\ sink_log[splits[k].at + 1].kind = "finalize"
        /\ sink_log[splits[k].at + 1].op = "update"
        /\ sink_log[splits[k].at + 2].op = "create"
        /\ TLen(sink_log[splits[k].at + 2].text) > SLACK_MAX_MESSAGE_LENGTH

\* C31: the length recorded at the last flush never exceeds the length of
\* the accumulated text, so new_chars is never negative when a flush call
\* computes it; this holds also for the message sent right after a split,
\* whose text is shorter than the text that was flushed before.
C31_FlushedLengthWithinText ==
    /\ last_streamed_len <= TLen(streaming_text)
    /\ \A i \in 1..Len(sink_log) : IsStreamCall(sink_log[i]) => sink_log[i].new_chars >= 0
    /\ \A k \in 1..Len(splits) :
          \A e \in {FlushAfter(splits[k])} : e.streamed <= TLen(e.acc)

\* A split left an accumulated text shorter than the length recorded at the
\* flush before it
C31_Witness ==
    \E k \in 1..Len(splits) :
        /\ sink_log[splits[k].at + 1].streamed > TLen(splits[k].new_text)
        /\ last_streamed_len = TLen(streaming_text)
        /\ last_streamed_len > 0

\* The flushes whose sink call failed
FailedFlushes == {i \in 1..Len(sink_log) : IsFlush(sink_log[i]) /\ ~sink_log[i].ok}

\* The next flush after sink call i, 0 when there is none
NextFlush(i) ==
    LET later == {j \in (i + 1)..Len(sink_log) : IsFlush(sink_log[j])}
    IN IF later = {} THEN 0 ELSE CHOOSE j \in later : \A k \in later : j <= k

\* C32: a flush whose sink call failed advances the throttle like one that
\* succeeded.  While it is the last flush made, the time and the length of
\* the last flush are the time of that call and the length of the text it
\* carried; and the next flush, unless it is forced, is made only when
\* STREAM_MIN_CHARS more characters and STREAM_UPDATE_INTERVAL_MS more
\* milliseconds have accumulated since the failed one.
C32_FailedFlushAdvancesThrottle ==
    \A i \in FailedFlushes :
        \A e \in {sink_log[i]}, j \in {NextFlush(i)} :
            IF j = 0
            THEN /\ last_stream_update = e.time
                 /\ last_streamed_len = TLen(e.acc)
            ELSE \A n \in {sink_log[j]} :
                    /\ n.streamed = TLen(e.acc)
                    /\ n.time_elapsed = n.time - e.time
                    /\ n.new_chars = TLen(n.acc) - TLen(e.acc)
                    /\ n.force \/ (/\ n.new_chars >= STREAM_MIN_CHARS
                                   /\ n.time_elapsed >= STREAM_UPDATE_INTERVAL_MS)

\* A flush that was not forced failed, and the next flush, not forced
\* either, was made when enough text and time had accumulated, and succeeded
C32_Witness ==
    \E i \in FailedFlushes :
        /\ ~sink_log[i].force
        /\ NextFlush(i) # 0
        /\ ~sink_log[NextFlush(i)].force
        /\ sink_log[NextFlush(i)].ok

\* The lines read from the output of the process that is used, the last one
\* started, and the lines passed to process_line, both in order
LinesUsed ==
    LET last == IF Spawns = {} THEN 0 ELSE CHOOSE i \in Spawns : \A j \in Spawns : j <= i
        IsLineRead(i) == /\ i > last /\ process_log[i].op = "readline"
                         /\ process_log[i].line # NoLine
        places == {i \in 1..Len(process_log) : IsLineRead(i)}
    IN [n \in 1..Cardinality(places) |->
          process_log[CHOOSE i \in places : Cardinality({j \in places : j <= i}) = n].line]
LinesProcessed ==
    LET places == {i \in 1..Len(process_log) : process_log[i].op = "process_line"}
    IN [n \in 1..Cardinality(places) |->
          process_log[CHOOSE i \in places : Cardinality({j \in places : j <= i}) = n].line]

\* C33: the lines passed to process_line are the lines of the process that
\* is used, each once and in the order of the output (the peeked line being
\* passed after it was read, the line of a killed process never), and the
\* reading stops only at the end of the output: when main has left the read
\* loop of an output that could be read, every line of the output has been
\* processed.
C33_EveryLineProcessedOnce ==
    /\ IF pc = "first" /\ first_line # NoLine
       THEN LinesUsed = Append(LinesProcessed, first_line)
       ELSE LinesUsed = LinesProcessed
    /\ (pc \notin {"prepare", "spawn", "peek", "first", "loop"} /\ Len(LinesUsed) > 0
          /\ ~ReadFailed)
       => eof

\* The sink calls that carry the text of the result event
ResultCalls == {i \in 1..Len(sink_log) : sink_log[i].kind = "result"}

\* main is past the outcome, which it reached without an exception
OutcomeDone == pc \in {"cleanup", "done"} /\ ~raised

\* C34: the text of the result event is sent, as one message of its own,
\* exactly when the run reaches its outcome with no stream text accumulated
\* and a result text that is not empty; it is not sent before the outcome,
\* and a run that accumulated stream text never sends it, so that no run
\* has both a message of the stream and a message of the result.
C34_ResultSentOnlyWithoutStream ==
    /\ Cardinality(ResultCalls) <= 1
    /\ ResultCalls # {} <=> (OutcomeDone /\ streaming_text = <<>> /\ final_result # <<>>)
    /\ \A i \in ResultCalls :
          /\ sink_log[i].op = "create"
          /\ sink_log[i].text = final_result
          /\ sink_log[i].acc = <<>>
          /\ \A j \in 1..Len(sink_log) :
                ~IsStreamCall(sink_log[j]) /\ sink_log[j].kind # "fallback"

\* A run without stream text ended by sending the text of its result event
C34_Witness ==
    /\ pc = "done"
    /\ streaming_text = <<>>
    /\ \E i \in ResultCalls : sink_log[i].ok /\ TLen(sink_log[i].text) > 0

\* The places in process_log of the removals of the thinking reaction and of
\* the temporary directory
ThinkingRemovals ==
    {i \in 1..Len(process_log) :
        process_log[i] = [op |-> "remove_reaction", emoji |-> THINKING_EMOJI]}
DirectoryRemovals == {i \in 1..Len(process_log) : process_log[i].op = "rmtree"}

\* Neither the reaction nor the directory has been removed
NothingRemoved ==
    /\ ThinkingRemovals = {} /\ DirectoryRemovals = {}
    /\ THINKING_EMOJI \in reactions

\* The reaction has been removed once, and before the directory, which has
\* been removed unless the removal of the reaction raised
RemovedInOrder ==
    /\ Cardinality(ThinkingRemovals) = 1
    /\ Cardinality(DirectoryRemovals) <= 1
    /\ \A i \in ThinkingRemovals, j \in DirectoryRemovals : i < j
    /\ THINKING_EMOJI \notin reactions
    /\ temp_dir = (DirectoryRemovals = {})
    /\ stderr => ~temp_dir

\* C35: in claude-streamer.py, once main's guarded section is entered, on
\* every way out of it (the process ended with or without an error, or the
\* download, Popen or process_line raised) the thinking reaction is removed
\* exactly once, and before the temporary directory is: every step that
\* ends main has done so.  Until main leaves the section neither is
\* removed.
C35_ThinkingRemovedOnceBeforeDirectory ==
    /\ [](pc # "done" => NothingRemoved /\ temp_dir)
    /\ [][pc' = "done" => RemovedInOrder']_vars

\* process_line raised on a line of the read loop, after a tool had been
\* reported, and main was left with the reaction and the directory removed
C35_Witness ==
    /\ pc = "done" /\ raised
    /\ Len(tool_events) > 0
    /\ \E i \in 1..Len(process_log) :
          process_log[i].op = "process_line" /\ process_log[i].line.kind = "scalar"
    /\ ThinkingRemovals # {}

TypeOK ==
    /\ pc \in {"prepare", "spawn", "peek", "first", "loop", "wait", "final", "fallback",
               "summary", "outcome", "cleanup", "done"}
    /\ attempt \in 0..FINAL_ATTEMPTS
    /\ streaming_msg_ts \in 0..next_ts
    /\ text_deltas \in Nat
    /\ stderr \in BOOLEAN /\ handler \in BOOLEAN
    /\ script \in {DEV_SCRIPT, STREAMER_SCRIPT}
    /\ raised \in BOOLEAN /\ temp_dir \in BOOLEAN
    /\ result_stats.duration_ms.type \in {"number", "string"}
    /\ result_stats.cost.type \in {"number", "string"}
    /\ result_stats.usage.type \in {"object", "string"}
    /\ \A i \in 1..Len(process_log) :
          process_log[i].op \in {"spawn", "readline", "read_error", "process_line", "kill",
                                 "wait", "remove_reaction", "rmtree"}

=============================================================================
